---- MODULE Spec2Model ----
(***************************************************************************)
(* A model of the Nice2Predict inference and learning engine               *)
(* (eth-sri/Nice2Predict): the string dictionary, the label validator, the *)
(* weight store with its candidate index, query and assignment, the MAP    *)
(* inference passes, SSVM / pseudolikelihood learning with Hogwild weight  *)
(* updates, the SSVM epoch driver and the binary model files.              *)
(*                                                                         *)
(* Conventions.                                                            *)
(*  - A C++ vector indexed by node is a function on 0..n-1; any other      *)
(*    vector is a sequence (1-based).                                      *)
(*  - A std::multiset<int> (Factor) is its sorted sequence.                *)
(*  - A double weight is a fixed-point integer; WOne units make 1.0.       *)
(*  - A uint64 is the tuple of its 8 bytes, least significant first, so    *)
(*    that arithmetic modulo 2^64 is exact.                                *)
(*  - A string is the tuple of its character codes (no NUL inside).        *)
(***************************************************************************)
EXTENDS Integers, Sequences, FiniteSets, TLC

(***************************************************************************)
(* Sequences and small helpers                                             *)
(***************************************************************************)
Range(s) == {s[i] : i \in 1..Len(s)}

Min2(x, y) == IF x < y THEN x ELSE y

Max2(x, y) == IF x > y THEN x ELSE y

RECURSIVE SumSeq(_)
SumSeq(s) == IF s = <<>> THEN 0 ELSE Head(s) + SumSeq(Tail(s))

\* The first n elements of s (all of s when it is shorter).
Take(s, n) == SubSeq(s, 1, Min2(n, Len(s)))

\* Lexicographic order on integer sequences (std::vector / std::multiset operator<).
RECURSIVE LexLess(_, _)
LexLess(s, t) ==
  IF t = <<>> THEN FALSE
  ELSE IF s = <<>> THEN TRUE
  ELSE IF Head(s) # Head(t) THEN Head(s) < Head(t)
  ELSE LexLess(Tail(s), Tail(t))

\* Insert x into the sorted sequence s, before the first element it precedes.
InsertSorted(s, x, Less(_, _)) ==
  LET js == {j \in 1..Len(s) : Less(x, s[j])}
      p == IF js = {} THEN Len(s) + 1 ELSE CHOOSE j \in js : \A k \in js : j <= k
  IN SubSeq(s, 1, p - 1) \o <<x>> \o SubSeq(s, p, Len(s))

\* std::sort with the strict order Less (elements that compare equal keep their order).
SortWith(s, Less(_, _)) ==
  LET f[i \in 0..Len(s)] == IF i = 0 THEN <<>> ELSE InsertSorted(f[i - 1], s[i], Less)
  IN f[Len(s)]

IntLess(x, y) == x < y

\* std::unique on a sorted sequence.
RECURSIVE Unique(_)
Unique(s) ==
  IF Len(s) <= 1 THEN s
  ELSE IF s[1] = s[2] THEN Unique(Tail(s))
  ELSE <<s[1]>> \o Unique(Tail(s))

\* The elements of a finite set of integers in ascending order.
RECURSIVE SetToSortedSeq(_)
SetToSortedSeq(S) ==
  IF S = {} THEN <<>>
  ELSE LET m == CHOOSE x \in S : \A y \in S : x <= y
       IN <<m>> \o SetToSortedSeq(S \ {m})

\* The elements of a finite set of integer sequences in lexicographic order.
RECURSIVE SetToLexSeq(_)
SetToLexSeq(S) ==
  IF S = {} THEN <<>>
  ELSE LET m == CHOOSE x \in S : \A y \in S : x = y \/ LexLess(x, y)
       IN <<m>> \o SetToLexSeq(S \ {m})

\* How often x occurs in the sequence s (std::multiset::count).
Count(s, x) == Cardinality({i \in 1..Len(s) : s[i] = x})

\* The sequence s without its element at position i.
RemoveAt(s, i) == SubSeq(s, 1, i - 1) \o SubSeq(s, i + 1, Len(s))

\* The function f on 1..n as a sequence whose elements are evaluated once.
AsSequence(f) == SubSeq(f, 1, Len(f))

\* FindWithDefault of base/maputil.h on a map held as a function.
FindWithDefault(m, k, d) == IF k \in DOMAIN m THEN m[k] ELSE d

\* The map m with key k set to v (operator[] followed by an assignment).
MapPut(m, k, v) == (k :> v) @@ m

(***************************************************************************)
(* 64-bit unsigned arithmetic on byte tuples                               *)
(***************************************************************************)
U64Zero == <<0, 0, 0, 0, 0, 0, 0, 0>>

U64FromNat(n) ==
  <<n % 256, (n \div 256) % 256, (n \div 65536) % 256, (n \div 16777216) % 256, 0, 0, 0, 0>>

\* Conversion of an int to uint64 (sign extension).
U64FromInt(x) ==
  IF x >= 0 THEN U64FromNat(x)
  ELSE LET n == U64FromNat(-x - 1)
       IN <<255 - n[1], 255 - n[2], 255 - n[3], 255 - n[4], 255, 255, 255, 255>>

\* The bytes of the column sums c[1..8]: t[k] includes the carry of byte k - 1.
U64Carry(c) ==
  LET t1 == c[1]
      t2 == c[2] + (t1 \div 256)
      t3 == c[3] + (t2 \div 256)
      t4 == c[4] + (t3 \div 256)
      t5 == c[5] + (t4 \div 256)
      t6 == c[6] + (t5 \div 256)
      t7 == c[7] + (t6 \div 256)
      t8 == c[8] + (t7 \div 256)
  IN <<t1 % 256, t2 % 256, t3 % 256, t4 % 256, t5 % 256, t6 % 256, t7 % 256, t8 % 256>>

U64Add(a, b) == U64Carry([k \in 1..8 |-> a[k] + b[k]])

\* The sum of the byte products a[i] * b[j] with i + j = k + 1.
U64ColSum(a, b, k) ==
  (IF k >= 1 THEN a[1] * b[k] ELSE 0) + (IF k >= 2 THEN a[2] * b[k - 1] ELSE 0)
  + (IF k >= 3 THEN a[3] * b[k - 2] ELSE 0) + (IF k >= 4 THEN a[4] * b[k - 3] ELSE 0)
  + (IF k >= 5 THEN a[5] * b[k - 4] ELSE 0) + (IF k >= 6 THEN a[6] * b[k - 5] ELSE 0)
  + (IF k >= 7 THEN a[7] * b[k - 6] ELSE 0) + (IF k >= 8 THEN a[8] * b[k - 7] ELSE 0)

U64Mul(a, b) == U64Carry([k \in 1..8 |-> U64ColSum(a, b, k)])

\* Bitwise exclusive or of two bytes.
XorNat(a, b) ==
  ((a + b) % 2)
  + 2 * (((a \div 2) + (b \div 2)) % 2)
  + 4 * (((a \div 4) + (b \div 4)) % 2)
  + 8 * (((a \div 8) + (b \div 8)) % 2)
  + 16 * (((a \div 16) + (b \div 16)) % 2)
  + 32 * (((a \div 32) + (b \div 32)) % 2)
  + 64 * (((a \div 64) + (b \div 64)) % 2)
  + 128 * (((a \div 128) + (b \div 128)) % 2)

U64Xor(a, b) ==
  <<XorNat(a[1], b[1]), XorNat(a[2], b[2]), XorNat(a[3], b[3]), XorNat(a[4], b[4]),
    XorNat(a[5], b[5]), XorNat(a[6], b[6]), XorNat(a[7], b[7]), XorNat(a[8], b[8])>>

\* x >> 33
U64Shr33(x) ==
  <<(x[5] \div 2) + 128 * (x[6] % 2), (x[6] \div 2) + 128 * (x[7] % 2),
    (x[7] \div 2) + 128 * (x[8] % 2), x[8] \div 2, 0, 0, 0, 0>>

\* x % n for 0 < n < 2^23, from the most significant byte down
U64Mod(x, n) ==
  LET r8 == x[8] % n
      r7 == (r8 * 256 + x[7]) % n
      r6 == (r7 * 256 + x[6]) % n
      r5 == (r6 * 256 + x[5]) % n
      r4 == (r5 * 256 + x[4]) % n
      r3 == (r4 * 256 + x[3]) % n
      r2 == (r3 * 256 + x[2]) % n
  IN (r2 * 256 + x[1]) % n

\* The low 32 bits of x as an int.
U64ToInt32(x) ==
  x[1] + 256 * x[2] + 65536 * x[3]
    + 16777216 * (IF x[4] >= 128 THEN x[4] - 256 ELSE x[4])

\* HashInt: the 64-bit finalizer of MurmurHash3 applied to x + 1.
HashMul1 == <<205, 140, 85, 237, 215, 175, 81, 255>>

HashMul2 == <<83, 236, 133, 26, 254, 185, 206, 196>>

\* x ^= x >> 33
XorShr33(x) == U64Xor(x, U64Shr33(x))

HashInt(x) ==
  XorShr33(U64Mul(XorShr33(U64Mul(XorShr33(U64Add(x, U64FromNat(1))), HashMul1)), HashMul2))

(***************************************************************************)
(* StringSet (base/stringset.cpp): the string dictionary.  The id of a     *)
(* string is the offset of its first character in m_data.                  *)
(***************************************************************************)
EmptyStringSet == [m_data |-> <<>>, m_hashes |-> <<>>, m_hashTableLoad |-> 0]

\* strlen of the NUL-terminated string that starts at offset index.
StrLenAt(m_data, index) ==
  LET End(nuls) == IF nuls = {} THEN Len(m_data) + 1
                   ELSE CHOOSE j \in nuls : \A k \in nuls : j <= k
  IN End({j \in (index + 1)..Len(m_data) : m_data[j] = 0}) - (index + 1)

getString(ss, index) == SubSeq(ss.m_data, index + 1, index + StrLenAt(ss.m_data, index))

\* One round of the loop of stringHash, hash = hash * 33 + c, is the map
\* hash -> hash * mul + add.  The maps of neighbouring characters are
\* composed until the map of the whole loop is left, which keeps the
\* evaluation shallow on long strings.
RECURSIVE stringHashLoop(_)
stringHashLoop(maps) ==
  IF Len(maps) = 0 THEN [mul |-> U64FromNat(1), add |-> U64Zero]
  ELSE IF Len(maps) = 1 THEN maps[1]
  ELSE stringHashLoop(
         AsSequence(
           [i \in 1..((Len(maps) + 1) \div 2) |->
              IF 2 * i > Len(maps) THEN maps[2 * i - 1]
              ELSE [mul |-> U64Mul(maps[2 * i - 1].mul, maps[2 * i].mul),
                    add |-> U64Add(U64Mul(maps[2 * i - 1].add, maps[2 * i].mul),
                                   maps[2 * i].add)]]))

\* unsigned long hash = 5381; hash = hash * 33 + c; return (int)(hash * 13)
stringHash(s) ==
  LET Hash(loop) ==
        U64ToInt32(U64Mul(U64Add(U64Mul(U64FromNat(5381), loop.mul), loop.add), U64FromNat(13)))
  IN Hash(stringHashLoop(
            AsSequence([i \in 1..Len(s) |-> [mul |-> U64FromNat(33), add |-> U64FromNat(s[i])]])))

\* size_t p = hash % m_hashes.size(), the int hash converted to size_t
HashSlot(hash, size) == U64Mod(U64FromInt(hash), size)

RECURSIVE ProbeFind(_, _, _)
ProbeFind(ss, s, p) ==
  IF ss.m_hashes[p + 1] = -1 THEN -1
  ELSE IF getString(ss, ss.m_hashes[p + 1]) = s THEN ss.m_hashes[p + 1]
  ELSE ProbeFind(ss, s, IF p + 1 = Len(ss.m_hashes) THEN 0 ELSE p + 1)

findStringL(ss, s, hash) ==
  IF Len(ss.m_hashes) = 0 THEN -1
  ELSE ProbeFind(ss, s, HashSlot(hash, Len(ss.m_hashes)))

findString(ss, s) == findStringL(ss, s, stringHash(s))

RECURSIVE ProbeFree(_, _)
ProbeFree(m_hashes, p) ==
  IF m_hashes[p + 1] = -1 THEN p
  ELSE ProbeFree(m_hashes, IF p + 1 = Len(m_hashes) THEN 0 ELSE p + 1)

addHashNoRehash(ss, hash, value) ==
  LET p == ProbeFree(ss.m_hashes, HashSlot(hash, Len(ss.m_hashes)))
  IN [ss EXCEPT !.m_hashTableLoad = @ + 1, !.m_hashes[p + 1] = value]

RECURSIVE rehashFrom(_, _)
rehashFrom(ss, pos) ==
  IF pos >= Len(ss.m_data) THEN ss
  ELSE LET str == getString(ss, pos)
       IN rehashFrom(addHashNoRehash(ss, stringHash(str), pos), pos + Len(str) + 1)

\* A variant that leaves the grown index empty.
rehashNothing(ss) == [ss EXCEPT !.m_hashTableLoad = 0]

rehashAll(ss) == rehashFrom([ss EXCEPT !.m_hashTableLoad = 0], 0)

RECURSIVE addHashGrow(_)
addHashGrow(ss) ==
  IF ss.m_hashTableLoad * 2 >= Len(ss.m_hashes)
  THEN addHashGrow(rehashAll([ss EXCEPT !.m_hashes = [i \in 1..(Len(ss.m_hashes) * 2 + 3) |-> -1]]))
  ELSE ss

addHash(ss, hash, value) == addHashNoRehash(addHashGrow(ss), hash, value)

\* addString: the dictionary afterwards, and the id returned.
addStringSet(ss, s) ==
  IF findString(ss, s) # -1 THEN ss
  ELSE LET added == addHash(ss, stringHash(s), Len(ss.m_data))
       IN [added EXCEPT !.m_data = ss.m_data \o s \o <<0>>]

addStringId(ss, s) ==
  LET Id(found) == IF found # -1 THEN found ELSE Len(ss.m_data)
  IN Id(findString(ss, s))

RECURSIVE getAllStringsFrom(_, _)
getAllStringsFrom(ss, pos) ==
  IF pos >= Len(ss.m_data) THEN <<>>
  ELSE <<pos>> \o getAllStringsFrom(ss, pos + Len(getString(ss, pos)) + 1)

getAllStrings(ss) == getAllStringsFrom(ss, 0)

getSize(ss) == Len(ss.m_data)

\* The file written: int data size, the bytes of m_data, int hash size.
saveToFile(ss) == <<Len(ss.m_data)>> \o ss.m_data \o <<Len(ss.m_hashes)>>

loadFromFile(f) ==
  LET n == f[1]
      data == SubSeq(f, 2, n + 1)
      hsize == f[n + 2]
  IN rehashAll([m_data |-> data, m_hashes |-> [i \in 1..hsize |-> -1], m_hashTableLoad |-> 0])

(***************************************************************************)
(* LabelChecker (n2p/inference/label_checker.cpp): the label validator.    *)
(* A rule is [valid_, re_str_].  Regular expressions are modelled for the  *)
(* patterns built from literal characters, '.' and a postfix '*'.          *)
(***************************************************************************)
\* Strings longer than this are never matched against a regex rule.
MaxRegexLabelLen == 100

\* . ? + * ( ) [ ] { } \ | $ ^
RegExMetaChars == {46, 63, 43, 42, 40, 41, 91, 93, 123, 125, 92, 124, 36, 94}

IsRegEx(c) == \E i \in 1..Len(c) : c[i] \in RegExMetaChars

\* The atoms of the pattern p: a character with or without a postfix '*'.
RECURSIVE RegexAtoms(_)
RegexAtoms(p) ==
  IF p = <<>> THEN <<>>
  ELSE IF Len(p) >= 2 /\ p[2] = 42
  THEN <<[ch |-> p[1], star |-> TRUE]>> \o RegexAtoms(SubSeq(p, 3, Len(p)))
  ELSE <<[ch |-> p[1], star |-> FALSE]>> \o RegexAtoms(Tail(p))

\* The matcher is in state k when the first k atoms are done; the states it
\* can move to from the states S without reading a character.
RegexSkip(atoms, S) ==
  {j \in 0..Len(atoms) : \E k \in S : k <= j /\ \A m \in (k + 1)..j : atoms[m].star}

\* The states after reading the character c in one of the states S.
RegexRead(atoms, S, c) ==
  RegexSkip(atoms,
            {j \in 0..Len(atoms) :
               \E k \in S : /\ k < Len(atoms)
                            /\ atoms[k + 1].ch = 46 \/ atoms[k + 1].ch = c
                            /\ j = IF atoms[k + 1].star THEN k ELSE k + 1})

\* runs[i][k] holds the states the matcher can be in after it read a piece
\* of the string in state k; the runs of neighbouring pieces are composed
\* until the run of the whole string is left.
RECURSIVE RegexRun(_, _)
RegexRun(atoms, runs) ==
  IF Len(runs) = 0 THEN [k \in 0..Len(atoms) |-> RegexSkip(atoms, {k})]
  ELSE IF Len(runs) = 1 THEN runs[1]
  ELSE RegexRun(atoms,
                AsSequence(
                  [i \in 1..((Len(runs) + 1) \div 2) |->
                     IF 2 * i > Len(runs) THEN runs[2 * i - 1]
                     ELSE [k \in 0..Len(atoms) |->
                             UNION {runs[2 * i][j] : j \in runs[2 * i - 1][k]}]]))

\* std::regex_match of the whole string s against the pattern p.
RegexMatch(p, s) ==
  LET Match(atoms) ==
        Len(atoms) \in
          RegexRun(atoms,
                   AsSequence(
                     [i \in 1..Len(s) |->
                        [k \in 0..Len(atoms) |->
                           RegexRead(atoms, RegexSkip(atoms, {k}), s[i])]]))[0]
  IN Match(RegexAtoms(p))

EmptyLabelChecker == [rules_ |-> <<>>, valid_labels_ |-> <<>>, is_loaded_ |-> FALSE]

\* LoadRules: the lines of the rules file that start with + or - (comment
\* lines start with # or %, empty lines are skipped).
RECURSIVE LoadRules(_)
LoadRules(lines) ==
  IF lines = <<>> THEN <<>>
  ELSE LET line == Head(lines)
       IN (IF line = <<>> THEN <<>>
           ELSE IF line[1] = 43 THEN <<[valid_ |-> TRUE, re_str_ |-> Tail(line)]>>
           ELSE IF line[1] = 45 THEN <<[valid_ |-> FALSE, re_str_ |-> Tail(line)]>>
           ELSE <<>>) \o LoadRules(Tail(lines))

\* A variant that matches every label against the regex, whatever its length.
ApplyRegexRuleAnyLength(valid_labels, rule, ss, strings, i) ==
  LET hit == {strings[j] : j \in {k \in i..Len(strings) :
                                    RegexMatch(rule.re_str_, getString(ss, strings[k]))}}
  IN [label \in DOMAIN valid_labels \cup hit |->
        IF label \in hit THEN rule.valid_ ELSE valid_labels[label]]

\* One regex rule applied to the labels strings[i..].
RECURSIVE ApplyRegexRule(_, _, _, _, _)
ApplyRegexRule(valid_labels, rule, ss, strings, i) ==
  IF i > Len(strings) THEN valid_labels
  ELSE LET label == strings[i]
           str == getString(ss, label)
       IN IF Len(str) > MaxRegexLabelLen
          THEN ApplyRegexRule(MapPut(valid_labels, label, FALSE), rule, ss, strings, i + 1)
          ELSE IF RegexMatch(rule.re_str_, str)
          THEN ApplyRegexRule(MapPut(valid_labels, label, rule.valid_), rule, ss, strings, i + 1)
          ELSE ApplyRegexRule(valid_labels, rule, ss, strings, i + 1)

RECURSIVE ApplyRulesFrom(_, _, _, _)
ApplyRulesFrom(valid_labels, rules, ss, r) ==
  IF r > Len(rules) THEN valid_labels
  ELSE LET rule == rules[r]
       IN IF IsRegEx(rule.re_str_)
          THEN ApplyRulesFrom(ApplyRegexRule(valid_labels, rule, ss, getAllStrings(ss), 1),
                              rules, ss, r + 1)
          ELSE LET label == findString(ss, rule.re_str_)
               IN IF label >= 0
                  THEN ApplyRulesFrom(MapPut(valid_labels, label, rule.valid_), rules, ss, r + 1)
                  ELSE ApplyRulesFrom(valid_labels, rules, ss, r + 1)

ApplyRulesOnAllValuesInSS(checker, ss) ==
  [checker EXCEPT !.valid_labels_ = ApplyRulesFrom(checker.valid_labels_, checker.rules_, ss, 1)]

LabelCheckerLoad(checker, lines, ss) ==
  [ApplyRulesOnAllValuesInSS([checker EXCEPT !.rules_ = LoadRules(lines)], ss)
     EXCEPT !.is_loaded_ = TRUE]

\* A variant in which a label that no rule touched is valid.
IsLabelValidUnlessRejected(checker, label) == FindWithDefault(checker.valid_labels_, label, TRUE)

IsLabelValid(checker, label) == FindWithDefault(checker.valid_labels_, label, FALSE)

RECURSIVE StringValidFrom(_, _, _, _)
StringValidFrom(rules, s, r, valid) ==
  IF r > Len(rules) THEN valid
  ELSE LET rule == rules[r]
           hit == IF IsRegEx(rule.re_str_) THEN RegexMatch(rule.re_str_, s) ELSE rule.re_str_ = s
       IN StringValidFrom(rules, s, r + 1, IF hit THEN rule.valid_ ELSE valid)

IsStringLabelValid(checker, s) == StringValidFrom(checker.rules_, s, 1, TRUE)

(***************************************************************************)
(* Command-line flags (gflags).  They are set when the process starts and  *)
(* never change afterwards.  FLAGS.valid_labels holds the lines of the     *)
(* rules file the flag names.                                              *)
(***************************************************************************)
VARIABLE FLAGS

(***************************************************************************)
(* GraphInference (n2p/inference/graph_inference.cpp): the model.          *)
(* A GraphFeature is <<a_, b_, type_>>; a Factor is the sorted sequence    *)
(* of its labels; a weighted entry of the candidate index is <<w, key>>.   *)
(***************************************************************************)
kFactorsLimitBeforeGoingDepperMultiLevelMap == 16

\* The resolution of the weights: WOne units make 1.0.
WOne == 80

\* The labels a model of this size can use as dictionary ids.
MaxLabelId == 40

HashIntTable == [x \in -1..MaxLabelId |-> HashInt(U64FromInt(x))]

RECURSIVE FactorHashFrom(_, _, _)
FactorHashFrom(f, i, hash) ==
  IF i > Len(f) THEN hash ELSE FactorHashFrom(f, i + 1, U64Add(hash, HashIntTable[f[i]]))

\* A variant that adds the hash of the first label twice.
FactorHashFirstTwice(f) ==
  FactorHashFrom(f, 1, IF Len(f) = 0 THEN U64Zero ELSE HashIntTable[f[1]])

\* hash += HashInt(var) over the labels of a factor.
FactorHash(f) == FactorHashFrom(f, 1, U64Zero)

MakeFactor(labels) == SortWith(labels, IntLess)

GraphInferenceNew ==
  [features_ |-> <<>>, factors_set_ |-> {}, factor_features_ |-> <<>>,
   best_features_for_type_ |-> <<>>, best_features_for_a_type_ |-> <<>>,
   best_features_for_b_type_ |-> <<>>, best_factor_features_first_level_ |-> <<>>,
   label_frequency_ |-> <<>>, unknown_label_ |-> -1, strings_ |-> EmptyStringSet,
   label_checker_ |-> EmptyLabelChecker, regularizer_ |-> WOne, svm_margin_ |-> 0,
   beam_size_ |-> 0, num_svm_training_samples_ |-> 0]

\* The first loop of AddQueryToModel: [strings_, values, unique_values].
RECURSIVE AddQueryValues(_, _, _)
AddQueryValues(st, assignments, i) ==
  IF i > Len(assignments) THEN st
  ELSE LET a == assignments[i]
           Add(value) == [strings_ |-> addStringSet(st.strings_, a.label),
                          values |-> MapPut(st.values, a.node_index, value),
                          unique_values |-> st.unique_values \cup {value}]
       IN AddQueryValues(Add(addStringId(st.strings_, a.label)), assignments, i + 1)

\* The labels of the nodes of a factor, <<>> as soon as one has no label.
RECURSIVE FactorValues(_, _, _)
FactorValues(values, nodes, i) ==
  IF i > Len(nodes) THEN <<>>
  ELSE LET value == FindWithDefault(values, nodes[i], -1)
       IN IF value = -1 THEN <<-1>> ELSE <<value>> \o FactorValues(values, nodes, i + 1)

AddQueryFactor(eng, values, f) ==
  LET vals == FactorValues(values, f.nodes, 1)
      Add(hash, factor_vars) ==
        [eng EXCEPT !.factors_set_ = @ \cup {factor_vars},
                    !.factor_features_ = MapPut(@, hash, FindWithDefault(@, hash, 0) + WOne)]
      AddVars(factor_vars) ==
        IF factor_vars = <<>> THEN eng ELSE Add(FactorHash(factor_vars), factor_vars)
  IN AddVars(IF -1 \in Range(vals) THEN <<>> ELSE MakeFactor(vals))

AddQueryBinary(eng, values, f) ==
  LET Add(eng1, feature) ==
        IF feature[1] # -1 /\ feature[2] # -1
        THEN [eng1 EXCEPT !.features_ = MapPut(@, feature, FindWithDefault(@, feature, 0) + WOne)]
        ELSE eng1
  IN Add([eng EXCEPT !.strings_ = addStringSet(@, f.relation)],
         <<FindWithDefault(values, f.first_node, -1), FindWithDefault(values, f.second_node, -1),
           addStringId(eng.strings_, f.relation)>>)

RECURSIVE AddQueryFeatures(_, _, _, _)
AddQueryFeatures(eng, values, features, i) ==
  IF i > Len(features) THEN eng
  ELSE LET f == features[i]
           AddFactor(eng1) == IF FLAGS.use_factors /\ f.kind = "factor_variables"
                              THEN AddQueryFactor(eng1, values, f) ELSE eng1
       IN AddQueryFeatures(AddFactor(IF f.kind = "binary_relation"
                                     THEN AddQueryBinary(eng, values, f) ELSE eng),
                           values, features, i + 1)

AddQueryToModel(eng, query) ==
  LET Add(st) ==
        AddQueryFeatures(
          [eng EXCEPT !.strings_ = st.strings_,
                      !.label_frequency_ =
                         [l \in (DOMAIN @) \cup st.unique_values |->
                            FindWithDefault(@, l, 0) + (IF l \in st.unique_values THEN 1 ELSE 0)]],
          st.values, query.features, 1)
  IN Add(AddQueryValues([strings_ |-> eng.strings_, values |-> <<>>, unique_values |-> {}],
                        query.node_assignments, 1))

InitializeFeatureWeights(eng, regularization) ==
  LET reg == WOne \div regularization
  IN [eng EXCEPT !.regularizer_ = reg,
                 !.features_ = [f \in DOMAIN @ |-> reg \div 2],
                 !.factor_features_ = [h \in DOMAIN @ |-> reg \div 2]]

SSVMInit(eng, margin) == [eng EXCEPT !.svm_margin_ = margin]

PLInit(eng, beam_size) == [eng EXCEPT !.beam_size_ = beam_size]

(***************************************************************************)
(* FactorFeaturesLevel (n2p/inference/graph_inference.h): one level of the *)
(* factor candidate tree, [factor_features, next_level].                   *)
(***************************************************************************)
FactorFeaturesLevelNew == [factor_features |-> <<>>, next_level |-> <<>>]

RECURSIVE InsertFactorFeature(_, _, _, _, _, _, _, _)
RECURSIVE InsertNextLevel(_, _, _, _, _, _, _, _, _)
InsertFactorFeature(level, factor_feature, f, current_depth, maximum_depth, current_label, visited_labels, limit) ==
  LET level1 == [level EXCEPT !.factor_features = Append(@, factor_feature)]
      visited == IF current_label > 0 THEN Append(visited_labels, current_label)
                 ELSE visited_labels
  IN IF /\ current_depth < maximum_depth
        /\ Len(visited) < Len(f)
        /\ Len(level1.factor_features) > limit
     THEN InsertNextLevel(level1, factor_feature, f, current_depth, maximum_depth,
                          visited, limit, 1, <<>>)
     ELSE level1

\* The loop over the labels f[i..] of the factor.
InsertNextLevel(level, factor_feature, f, current_depth, maximum_depth, visited_labels, limit, i, next_level_labels_visited) ==
  IF i > Len(f) THEN level
  ELSE IF Count(visited_labels, f[i]) + Count(next_level_labels_visited, f[i]) < Count(f, f[i])
  THEN LET child == FindWithDefault(level.next_level, f[i], FactorFeaturesLevelNew)
           child1 == InsertFactorFeature(child, factor_feature, f, current_depth + 1,
                                         maximum_depth, f[i], visited_labels, limit)
       IN InsertNextLevel([level EXCEPT !.next_level = MapPut(@, f[i], child1)],
                          factor_feature, f, current_depth, maximum_depth, visited_labels,
                          limit, i + 1, Append(next_level_labels_visited, f[i]))
  ELSE InsertNextLevel(level, factor_feature, f, current_depth, maximum_depth,
                       visited_labels, limit, i + 1, next_level_labels_visited)

WeightGreater(x, y) == x[1] > y[1]

RECURSIVE SortFactorFeatures(_)
SortFactorFeatures(level) ==
  [factor_features |-> SortWith(level.factor_features, WeightGreater),
   next_level |-> [l \in DOMAIN level.next_level |-> SortFactorFeatures(level.next_level[l])]]

\* A variant that has no candidates for a factor without given labels.
GetFactorsOfGivenLabels(level, giv_labels, next_level_label, beam_size, dangling) ==
  IF giv_labels = <<>> THEN <<>>
  ELSE [i \in 1..Min2(beam_size, Len(level.factor_features)) |-> level.factor_features[i][2]]

\* GetFactors.  In its else branch the code erases the first of giv_labels
\* and then advances and reads the erased iterator; dangling is the value
\* that read produces.
RECURSIVE GetFactors(_, _, _, _, _)
GetFactors(level, giv_labels, next_level_label, beam_size, dangling) ==
  IF \/ DOMAIN level.next_level = {}
     \/ giv_labels = <<>>
     \/ next_level_label \notin DOMAIN level.next_level
  THEN [i \in 1..Min2(beam_size, Len(level.factor_features)) |-> level.factor_features[i][2]]
  ELSE GetFactors(level.next_level[next_level_label], Tail(giv_labels), dangling,
                  beam_size, dangling)

(***************************************************************************)
(* PrepareForInference                                                     *)
(***************************************************************************)
FeatureLess(f, g) == LexLess(f, g)

\* std::greater on pair<double, GraphFeature> and on pair<double, int>.
FeaturePairGreater(x, y) == x[1] > y[1] \/ (x[1] = y[1] /\ FeatureLess(y[2], x[2]))

IntPairGreater(x, y) == x[1] > y[1] \/ (x[1] = y[1] /\ y[2] < x[2])

\* The elements of the finite set S in the order of the strict total order Before.
SetToSeqBy(S, Before(_, _)) ==
  [i \in 1..Cardinality(S) |-> CHOOSE x \in S : Cardinality({y \in S : Before(y, x)}) = i - 1]

\* The rare-label rewrite of features_: labels absent from label_frequency
\* become the unknown label, weights of merged keys add up.
ReplaceRareFeatures(features, label_frequency, unknown_label) ==
  LET Repl(l) == IF l \in DOMAIN label_frequency THEN l ELSE unknown_label
      To(f) == <<Repl(f[1]), Repl(f[2]), f[3]>>
      src(g) == SetToSeqBy({f \in DOMAIN features : To(f) = g}, FeatureLess)
  IN [g \in {To(f) : f \in DOMAIN features} |->
        SumSeq([i \in 1..Len(src(g)) |-> features[src(g)[i]]])]

RECURSIVE BuildFactorLevels(_, _, _, _)
BuildFactorLevels(first_level, eng, factors, i) ==
  IF i > Len(factors) THEN first_level
  ELSE LET f == factors[i]
           feature_weight == FindWithDefault(eng.factor_features_, FactorHash(f), 0)
           level == FindWithDefault(first_level, Len(f), FactorFeaturesLevelNew)
       IN BuildFactorLevels(
            MapPut(first_level, Len(f),
                   InsertFactorFeature(level, <<feature_weight, f>>, f, 0, FLAGS.maximum_depth,
                                       -1, <<>>, kFactorsLimitBeforeGoingDepperMultiLevelMap)),
            eng, factors, i + 1)

\* if (!FLAGS_unknown_label.empty()) unknown_label_ = strings_.addString(...)
AddUnknownLabel(eng) ==
  IF FLAGS.unknown_label = <<>> THEN eng
  ELSE [eng EXCEPT !.strings_ = addStringSet(@, FLAGS.unknown_label),
                   !.unknown_label_ = addStringId(eng.strings_, FLAGS.unknown_label)]

\* if (!label_checker_.IsLoaded()) label_checker_.Load(FLAGS_valid_labels, &strings_)
LoadLabelChecker(eng) ==
  IF eng.label_checker_.is_loaded_ THEN eng
  ELSE [eng EXCEPT !.label_checker_ = LabelCheckerLoad(@, FLAGS.valid_labels, eng.strings_)]

\* The two blocks that drop the rare labels and rewrite features_.
ReplaceRareLabels(eng) ==
  IF eng.unknown_label_ >= 0 /\ FLAGS.min_freq_known_label > 0
  THEN LET Rewrite(freq) ==
             [eng EXCEPT !.label_frequency_ = freq,
                         !.features_ = ReplaceRareFeatures(@, freq, eng.unknown_label_)]
       IN Rewrite([l \in {k \in DOMAIN eng.label_frequency_ :
                            eng.label_frequency_[k] >= FLAGS.min_freq_known_label}
                     |-> eng.label_frequency_[l]])
  ELSE eng

\* The candidate index built from features_ and factors_set_, then sorted.
BuildBestFeatures(eng) ==
  [eng EXCEPT
     !.num_svm_training_samples_ = 0,
     !.best_features_for_type_ =
        [t \in {f[3] : f \in DOMAIN eng.features_} |->
           SetToSeqBy({<<eng.features_[f], f>> : f \in {g \in DOMAIN eng.features_ : g[3] = t}},
                      FeaturePairGreater)],
     !.best_features_for_a_type_ =
        [k \in {<<f[1], f[3]>> : f \in DOMAIN eng.features_} |->
           SetToSeqBy({<<eng.features_[f], f[2]>> :
                         f \in {g \in DOMAIN eng.features_ : g[1] = k[1] /\ g[3] = k[2]}},
                      IntPairGreater)],
     !.best_features_for_b_type_ =
        [k \in {<<f[2], f[3]>> : f \in DOMAIN eng.features_} |->
           SetToSeqBy({<<eng.features_[f], f[1]>> :
                         f \in {g \in DOMAIN eng.features_ : g[2] = k[1] /\ g[3] = k[2]}},
                      IntPairGreater)],
     !.best_factor_features_first_level_ =
        [n \in {Len(f) : f \in eng.factors_set_} |->
           SortFactorFeatures(
             BuildFactorLevels(<<>>, eng, SetToLexSeq(eng.factors_set_), 1)[n])]]

PrepareForInference(eng) ==
  BuildBestFeatures(ReplaceRareLabels(LoadLabelChecker(AddUnknownLabel(eng))))

(***************************************************************************)
(* LabelSet (n2p/inference/label_set.h): the labels of one query.  Labels  *)
(* of the dictionary keep their id, other labels get ss_size_ + index.     *)
(***************************************************************************)
LabelSetNew(eng) ==
  [ss_size_ |-> getSize(eng.strings_), added_labels_by_label_id_ |-> <<>>,
   validity_by_label_id_ |-> <<>>]

\* The index (from 0) of label_name among the added labels, -1 if absent.
AddedLabelIndex(ls, label_name) ==
  LET js == {j \in 1..Len(ls.added_labels_by_label_id_) :
               ls.added_labels_by_label_id_[j] = label_name}
  IN IF js = {} THEN -1 ELSE (CHOOSE j \in js : TRUE) - 1

\* The id AddLabelName returns.
AddLabelNameId(ls, eng, label_name) ==
  LET Id(label_id, added) ==
        IF label_id >= 0 THEN label_id
        ELSE IF added >= 0 THEN added + ls.ss_size_
        ELSE Len(ls.added_labels_by_label_id_) + ls.ss_size_
  IN Id(findString(eng.strings_, label_name), AddedLabelIndex(ls, label_name))

\* The label set after AddLabelName.
AddLabelNameSet(ls, eng, label_name) ==
  IF findString(eng.strings_, label_name) >= 0 \/ AddedLabelIndex(ls, label_name) >= 0
  THEN ls
  ELSE [ls EXCEPT !.added_labels_by_label_id_ = Append(@, label_name),
                  !.validity_by_label_id_ =
                     Append(@, IsStringLabelValid(eng.label_checker_, label_name))]

IsLabelIdValid(ls, eng, label_id) ==
  IF label_id >= ls.ss_size_ THEN ls.validity_by_label_id_[label_id - ls.ss_size_ + 1]
  ELSE IsLabelValid(eng.label_checker_, label_id)

(***************************************************************************)
(* GraphQuery.  An Arc is <<node_a, node_b, type>>; a factor of the query  *)
(* is the sorted sequence of its nodes; scopes are numbered from 1.        *)
(***************************************************************************)
GraphQueryNew(eng) ==
  [arcs_ |-> <<>>, factors_ |-> <<>>, arcs_adjacent_to_node_ |-> <<>>,
   factors_of_a_node_ |-> <<>>, arcs_connecting_node_pair_ |-> <<>>,
   nodes_in_scope_ |-> <<>>, scopes_per_nodes_ |-> <<>>, label_set_ |-> LabelSetNew(eng)]

ArcLess(x, y) == LexLess(x, y)

\* The loop over the features: [arcs_, factors_, nodes_in_scope_, max_index].
RECURSIVE QueryFeatures(_, _, _, _)
QueryFeatures(st, eng, features, i) ==
  IF i > Len(features) THEN st
  ELSE LET f == features[i]
           AddArc(type) ==
             [st EXCEPT !.max_index = Max2(@, Max2(f.first_node, f.second_node)),
                        !.arcs_ = IF type < 0 THEN @
                                  ELSE Append(@, <<f.first_node, f.second_node, type>>)]
           AddScope(scope_vars) ==
             [st EXCEPT !.max_index = Max2(@, scope_vars[Len(scope_vars)]),
                        !.nodes_in_scope_ = Append(@, Unique(scope_vars))]
           AddFactor(st1, factor) ==
             [st1 EXCEPT !.max_index = Max2(@, IF factor = <<>> THEN 0 ELSE factor[Len(factor)]),
                         !.factors_ = Append(@, factor)]
           Factors(st1) == IF FLAGS.use_factors /\ f.kind = "factor_variables"
                           THEN AddFactor(st1, MakeFactor(f.nodes)) ELSE st1
       IN QueryFeatures(
            Factors(IF f.kind = "binary_relation" THEN AddArc(findString(eng.strings_, f.relation))
                    ELSE IF f.kind = "constraint" /\ f.nodes # <<>>
                    THEN AddScope(SortWith(f.nodes, IntLess))
                    ELSE st),
            eng, features, i + 1)

\* The arcs joining a and b, each arc once per direction it matches.
RECURSIVE ArcsConnecting(_, _, _, _)
ArcsConnecting(arcs, a, b, i) ==
  IF i > Len(arcs) THEN <<>>
  ELSE (IF arcs[i][1] = a /\ arcs[i][2] = b THEN <<arcs[i]>> ELSE <<>>)
       \o (IF arcs[i][2] = a /\ arcs[i][1] = b THEN <<arcs[i]>> ELSE <<>>)
       \o ArcsConnecting(arcs, a, b, i + 1)

RECURSIVE FactorsOfANode(_, _, _)
FactorsOfANode(factors, node, i) ==
  IF i > Len(factors) THEN <<>>
  ELSE [j \in 1..Count(factors[i], node) |-> i] \o FactorsOfANode(factors, node, i + 1)

RECURSIVE ScopesOfANode(_, _, _)
ScopesOfANode(scopes, node, i) ==
  IF i > Len(scopes) THEN <<>>
  ELSE (IF node \in Range(scopes[i]) THEN <<i>> ELSE <<>>) \o ScopesOfANode(scopes, node, i + 1)

FromFeaturesQueryProto(q, eng, features) ==
  LET Index(st, arcs, nodes) ==
        [q EXCEPT
           !.arcs_ = arcs,
           !.factors_ = st.factors_,
           !.nodes_in_scope_ = st.nodes_in_scope_,
           !.arcs_adjacent_to_node_ =
              [n \in nodes |-> SetToLexSeq({x \in Range(arcs) : x[1] = n \/ x[2] = n})],
           !.arcs_connecting_node_pair_ =
              [pr \in {<<x[1], x[2]>> : x \in Range(arcs)} \cup {<<x[2], x[1]>> : x \in Range(arcs)}
                 |-> ArcsConnecting(arcs, pr[1], pr[2], 1)],
           !.scopes_per_nodes_ = [n \in nodes |-> ScopesOfANode(st.nodes_in_scope_, n, 1)],
           !.factors_of_a_node_ = [n \in nodes |-> FactorsOfANode(st.factors_, n, 1)]]
      Sorted(st) == Index(st, SortWith(st.arcs_, ArcLess), 0..st.max_index)
  IN Sorted(QueryFeatures([arcs_ |-> <<>>, factors_ |-> <<>>,
                           nodes_in_scope_ |-> q.nodes_in_scope_, max_index |-> 0],
                          eng, features, 1))

(***************************************************************************)
(* GraphNodeAssignment: [assignments_, penalties_, unknown_label_].  The   *)
(* query and the model it refers to are passed along as q and eng.         *)
(***************************************************************************)
MAX_NAME_LEN == 1024

AssignmentNew == [must_infer |-> FALSE, label |-> -1]

LabelPenaltyNew == [label |-> -2, penalty |-> 0]

ClearPenalty(a) == [a EXCEPT !.penalties_ = [n \in DOMAIN a.assignments_ |-> LabelPenaltyNew]]

SetUpEqualityPenalty(a, penalty) ==
  [a EXCEPT !.penalties_ =
     [n \in DOMAIN a.assignments_ |->
        IF a.assignments_[n].must_infer
        THEN [label |-> a.assignments_[n].label, penalty |-> penalty]
        ELSE LabelPenaltyNew]]

\* The loop of FromNodeAssignmentsProto: [assignments_, label_set_].
RECURSIVE NodeAssignments(_, _, _, _)
NodeAssignments(st, eng, assignments, i) ==
  IF i > Len(assignments) THEN st
  ELSE LET name == Take(assignments[i].label, MAX_NAME_LEN)
           aset == [must_infer |-> ~assignments[i].given,
                    label |-> AddLabelNameId(st.label_set_, eng, name)]
           node == assignments[i].node_index
       IN NodeAssignments(
            [assignments_ |-> IF node \in DOMAIN st.assignments_
                              THEN [st.assignments_ EXCEPT ![node] = aset]
                              ELSE st.assignments_,
             label_set_ |-> AddLabelNameSet(st.label_set_, eng, name)],
            eng, assignments, i + 1)

\* CreateAssignment followed by FromNodeAssignmentsProto: the assignment.
FromNodeAssignmentsProto(q, eng, assignments) ==
  ClearPenalty(
    [assignments_ |->
       NodeAssignments([assignments_ |-> [n \in DOMAIN q.arcs_adjacent_to_node_ |-> AssignmentNew],
                        label_set_ |-> q.label_set_], eng, assignments, 1).assignments_,
     penalties_ |-> <<>>,
     unknown_label_ |-> eng.unknown_label_])

\* The query after FromNodeAssignmentsProto added the labels to its label set.
QueryWithLabels(q, eng, assignments) ==
  [q EXCEPT !.label_set_ =
     NodeAssignments([assignments_ |-> [n \in DOMAIN q.arcs_adjacent_to_node_ |-> AssignmentNew],
                      label_set_ |-> q.label_set_], eng, assignments, 1).label_set_]

LabelOf(a, node) == a.assignments_[node].label

SetLabel(a, node, label) == [a EXCEPT !.assignments_[node].label = label]

GetNodePenalty(a, node) ==
  IF LabelOf(a, node) = a.penalties_[node].label THEN a.penalties_[node].penalty ELSE 0

FeatureWeight(eng, feature) == FindWithDefault(eng.features_, feature, 0)

FactorWeight(eng, hash) == FindWithDefault(eng.factor_features_, hash, 0)

\* The hash of the labels the assignment gives to the nodes of a factor.
FactorLabelsHash(a, factor) == FactorHash([i \in 1..Len(factor) |-> LabelOf(a, factor[i])])

GetNodeScore(a, q, eng, node) ==
  LET arcs == q.arcs_adjacent_to_node_[node]
      fs == q.factors_of_a_node_[node]
  IN - GetNodePenalty(a, node)
     + SumSeq([i \in 1..Len(arcs) |->
                 FeatureWeight(eng, <<LabelOf(a, arcs[i][1]), LabelOf(a, arcs[i][2]), arcs[i][3]>>)])
     + SumSeq([i \in 1..Len(fs) |-> FactorWeight(eng, FactorLabelsHash(a, q.factors_[fs[i]]))])

GetNodeScoreGivenAssignmentToANode(a, q, eng, node, node_assigned, node_assignment) ==
  LET arcs == q.arcs_adjacent_to_node_[node]
      fs == q.factors_of_a_node_[node]
      L(n) == IF n = node_assigned THEN node_assignment ELSE LabelOf(a, n)
      node_label == L(node)
      Rest(factor) == SelectSeq(factor, LAMBDA v : v # node)
      Hash(factor) == U64Add(HashIntTable[node_label],
                             FactorLabelsHash(a, Rest(factor)))
  IN - GetNodePenalty(a, node)
     + SumSeq([i \in 1..Len(arcs) |->
                 FeatureWeight(eng, <<L(arcs[i][1]), L(arcs[i][2]), arcs[i][3]>>)])
     + SumSeq([i \in 1..Len(fs) |-> FactorWeight(eng, Hash(q.factors_[fs[i]]))])

GetNodeScoreOnAssignedNodes(a, q, eng, node, assigned) ==
  LET arcs == q.arcs_adjacent_to_node_[node]
      Counts(arc) == /\ (arc[1] = node \/ assigned[arc[1]])
                     /\ (arc[2] = node \/ assigned[arc[2]])
  IN - GetNodePenalty(a, node)
     + SumSeq([i \in 1..Len(arcs) |->
                 IF Counts(arcs[i])
                 THEN FeatureWeight(eng, <<LabelOf(a, arcs[i][1]), LabelOf(a, arcs[i][2]),
                                           arcs[i][3]>>)
                 ELSE 0])

\* The other nodes that share a scope with node and carry its label.
ConflictingNodes(a, q, node) ==
  {other \in UNION {Range(q.nodes_in_scope_[sc]) : sc \in Range(q.scopes_per_nodes_[node])} :
     other # node /\ LabelOf(a, other) = LabelOf(a, node)}

HasDuplicationConflictsAtNode(a, q, node) ==
  IF LabelOf(a, node) = a.unknown_label_ THEN FALSE
  ELSE ConflictingNodes(a, q, node) # {}

GetNodeWithDuplicationConflict(a, q, node) ==
  LET c == ConflictingNodes(a, q, node)
  IN IF Cardinality(c) = 1 THEN CHOOSE other \in c : TRUE ELSE -1

GetNodePairScore(a, q, eng, node1, node2, label1, label2) ==
  LET arcs == FindWithDefault(q.arcs_connecting_node_pair_, <<node1, node2>>, <<>>)
  IN SumSeq([i \in 1..Len(arcs) |->
               FeatureWeight(eng, IF arcs[i][1] = node1 THEN <<label1, label2, arcs[i][3]>>
                                  ELSE <<label2, label1, arcs[i][3]>>)])

GetTotalScore(a, q, eng) ==
  LET n == Cardinality(DOMAIN a.assignments_)
  IN SumSeq([i \in 1..Len(q.arcs_) |->
               FeatureWeight(eng, <<LabelOf(a, q.arcs_[i][1]), LabelOf(a, q.arcs_[i][2]),
                                    q.arcs_[i][3]>>)])
     - SumSeq([i \in 1..n |-> GetNodePenalty(a, i - 1)])

\* The labels of the first beam_size entries of a candidate list.
BeamLabels(v, beam_size) == {v[i][2] : i \in 1..Min2(beam_size, Len(v))}

GetLabelCandidates(a, q, eng, node, beam_size) ==
  LET arcs == q.arcs_adjacent_to_node_[node]
      FromB(arc) == IF arc[1] = node
                    THEN BeamLabels(FindWithDefault(eng.best_features_for_b_type_,
                                                    <<LabelOf(a, arc[2]), arc[3]>>, <<>>), beam_size)
                    ELSE {}
      FromA(arc) == IF arc[2] = node
                    THEN BeamLabels(FindWithDefault(eng.best_features_for_a_type_,
                                                    <<LabelOf(a, arc[1]), arc[3]>>, <<>>), beam_size)
                    ELSE {}
  IN SetToSortedSeq(UNION {FromB(arcs[i]) \cup FromA(arcs[i]) : i \in 1..Len(arcs)})

GetFactorCandidates(eng, factor_size, giv_labels, beam_size, dangling) ==
  GetFactors(FindWithDefault(eng.best_factor_features_first_level_, factor_size,
                             FactorFeaturesLevelNew),
             giv_labels, IF giv_labels = <<>> THEN dangling ELSE giv_labels[1],
             beam_size, dangling)

\* A variant that rewrites the labels of the infer nodes only.
ReplaceLabelsOfInferNodes(a, eng) ==
  [a EXCEPT !.assignments_ =
     [n \in DOMAIN @ |-> IF ~@[n].must_infer \/ @[n].label \in DOMAIN eng.label_frequency_
                         THEN @[n]
                         ELSE [@[n] EXCEPT !.label = a.unknown_label_]]]

ReplaceLabelsWithUnknown(a, eng) ==
  [a EXCEPT !.assignments_ =
     [n \in DOMAIN @ |-> IF @[n].label \in DOMAIN eng.label_frequency_ THEN @[n]
                         ELSE [@[n] EXCEPT !.label = a.unknown_label_]]]

(***************************************************************************)
(* UpdatablePriorityQueue (base/updatable_priority_queue.h)                *)
(***************************************************************************)
UpdatablePriorityQueueNew ==
  [value_for_key_ |-> <<>>, permanently_removed_keys_ |-> {}, keys_sorted_by_value_ |-> {}]

GetValue(pq, key) == FindWithDefault(pq.value_for_key_, key, 0)

SetValue(pq, key, value) ==
  [pq EXCEPT
     !.keys_sorted_by_value_ =
        IF key \in pq.permanently_removed_keys_ THEN @
        ELSE (@ \ {<<GetValue(pq, key), key>>}) \cup {<<value, key>>},
     !.value_for_key_ = MapPut(@, key, value)]

\* A removal that does not remember the key.
RemoveKeyFromQueue(pq, key) ==
  [pq EXCEPT !.keys_sorted_by_value_ = @ \ {<<GetValue(pq, key), key>>}]

PermanentlyRemoveKeyFromQueue(pq, key) ==
  [pq EXCEPT !.keys_sorted_by_value_ = @ \ {<<GetValue(pq, key), key>>},
             !.permanently_removed_keys_ = @ \cup {key}]

IsEmpty(pq) == pq.keys_sorted_by_value_ = {}

GetKeyWithMinValue(pq) ==
  (CHOOSE x \in pq.keys_sorted_by_value_ :
     \A y \in pq.keys_sorted_by_value_ : x = y \/ LexLess(x, y))[2]

(***************************************************************************)
(* The optimization passes of GraphNodeAssignment                          *)
(***************************************************************************)
kInitialAssignmentBeamSize == 4

kStartPerArcBeamSize == 4

kMaxPerArcBeamSize == 64

kStartPerNodeBeamSize == 4

kMaxPerNodeBeamSize == 64

kLoopyBPBeamSize == 32

Nodes(a) == DOMAIN a.assignments_

NumNodes(a) == Cardinality(Nodes(a))

\* The queue InitialGreedyAssignmentPass starts from.
RECURSIVE GreedyQueue(_, _, _, _, _)
GreedyQueue(pq, a, q, assigned, node) ==
  IF node >= NumNodes(a) THEN pq
  ELSE IF a.assignments_[node].must_infer
  THEN LET arcs == q.arcs_adjacent_to_node_[node]
           score == Cardinality({i \in 1..Len(arcs) :
                                   assigned[arcs[i][1]] \/ assigned[arcs[i][2]]})
       IN GreedyQueue(SetValue(pq, node, - score), a, q, assigned, node + 1)
  ELSE GreedyQueue(pq, a, q, assigned, node + 1)

\* The queue after the neighbours of the removed node moved up.
RECURSIVE GreedyRelax(_, _, _, _)
GreedyRelax(pq, arcs, node, i) ==
  IF i > Len(arcs) THEN pq
  ELSE IF arcs[i][1] = node
  THEN GreedyRelax(SetValue(pq, arcs[i][2], GetValue(pq, arcs[i][2]) - 1), arcs, node, i + 1)
  ELSE IF arcs[i][2] = node
  THEN GreedyRelax(SetValue(pq, arcs[i][1], GetValue(pq, arcs[i][1]) - 1), arcs, node, i + 1)
  ELSE GreedyRelax(pq, arcs, node, i + 1)

\* The label the greedy pass gives to node.
GreedyBestLabel(a, q, eng, node, assigned, candidates) ==
  LET Better(best, label, score) ==
        IF score > best.score THEN [label |-> label, score |-> score] ELSE best
      Try(best, label, a1) ==
        IF ~IsLabelValid(eng.label_checker_, label) THEN best
        ELSE IF HasDuplicationConflictsAtNode(a1, q, node) THEN best
        ELSE Better(best, label, GetNodeScoreOnAssignedNodes(a1, q, eng, node, assigned))
      RECURSIVE Best(_, _)
      Best(i, best) ==
        IF i > Len(candidates) THEN best
        ELSE Best(i + 1, Try(best, candidates[i], SetLabel(a, node, candidates[i])))
  IN Best(1, [label |-> LabelOf(a, node),
              score |-> GetNodeScoreOnAssignedNodes(a, q, eng, node, assigned)]).label

\* One round of the while loop: st is [a, assigned, p_queue].
GreedyStep(st, q, eng) ==
  LET Assign(node, pq, candidates) ==
        IF ~st.a.assignments_[node].must_infer \/ candidates = <<>>
        THEN [st EXCEPT !.p_queue = pq]
        ELSE [a |-> SetLabel(st.a, node,
                             GreedyBestLabel(st.a, q, eng, node, st.assigned, candidates)),
              assigned |-> [st.assigned EXCEPT ![node] = TRUE],
              p_queue |-> pq]
      Visit(node) ==
        Assign(node,
               GreedyRelax(PermanentlyRemoveKeyFromQueue(st.p_queue, node),
                           q.arcs_adjacent_to_node_[node], node, 1),
               GetLabelCandidates(st.a, q, eng, node, kInitialAssignmentBeamSize))
  IN Visit(GetKeyWithMinValue(st.p_queue))

RECURSIVE GreedyLoop(_, _, _)
GreedyLoop(st, q, eng) ==
  IF IsEmpty(st.p_queue) THEN st.a ELSE GreedyLoop(GreedyStep(st, q, eng), q, eng)

InitialGreedyAssignmentPass(a, q, eng) ==
  LET assigned == [n \in Nodes(a) |-> ~a.assignments_[n].must_infer]
  IN GreedyLoop([a |-> a, assigned |-> assigned,
                 p_queue |-> GreedyQueue(UpdatablePriorityQueueNew, a, q, assigned, 0)], q, eng)

\* The loop body of LocalPerNodeOptimizationPass for one node.
PerNodeStep(a, q, eng, node, beam_size) ==
  LET Better(best, label, score) ==
        IF score > best.score THEN [label |-> label, score |-> score] ELSE best
      Try(best, label, a1) ==
        IF ~IsLabelValid(eng.label_checker_, label) THEN best
        ELSE IF HasDuplicationConflictsAtNode(a1, q, node) THEN best
        ELSE Better(best, label, GetNodeScore(a1, q, eng, node))
      RECURSIVE Best(_, _, _)
      Best(candidates, i, best) ==
        IF i > Len(candidates) THEN best
        ELSE Best(candidates, i + 1, Try(best, candidates[i], SetLabel(a, node, candidates[i])))
      Search(candidates) ==
        IF ~a.assignments_[node].must_infer \/ candidates = <<>> THEN a
        ELSE SetLabel(a, node,
                      Best(candidates, 1, [label |-> LabelOf(a, node),
                                           score |-> GetNodeScore(a, q, eng, node)]).label)
  IN Search(GetLabelCandidates(a, q, eng, node, beam_size))

RECURSIVE LocalPerNodeOptimizationPassFrom(_, _, _, _, _)
LocalPerNodeOptimizationPassFrom(a, q, eng, beam_size, node) ==
  IF node >= NumNodes(a) THEN a
  ELSE LocalPerNodeOptimizationPassFrom(PerNodeStep(a, q, eng, node, beam_size),
                                        q, eng, beam_size, node + 1)

LocalPerNodeOptimizationPass(a, q, eng, beam_size) ==
  LocalPerNodeOptimizationPassFrom(a, q, eng, beam_size, 0)

\* The loop body of LocalPerNodeOptimizationPassWithDuplicateNameResolution.
PerNodeStepWithDuplicateNameResolution(a, q, eng, node, beam_size) ==
  LET initial_label == LabelOf(a, node)
      Better(best, label, score, node2) ==
        IF score > best.score THEN [label |-> label, score |-> score, node2 |-> node2] ELSE best
      \* a1 has the candidate at node, a2 has the initial label at node2 as well
      Swap(best, label, a1, node2, a2) ==
        IF /\ ~HasDuplicationConflictsAtNode(a2, q, node2)
           /\ ~HasDuplicationConflictsAtNode(a2, q, node)
        THEN Better(best, label,
                    GetNodeScore(a2, q, eng, node) + GetNodeScore(a2, q, eng, node2)
                      - GetNodeScore(a1, q, eng, node2),
                    node2)
        ELSE best
      Resolve(best, label, a1, node2) ==
        IF node2 = -1 THEN best
        ELSE IF ~a.assignments_[node2].must_infer THEN best
        ELSE Swap(best, label, a1, node2, SetLabel(a1, node2, initial_label))
      Try(best, label, a1) ==
        IF ~IsLabelValid(eng.label_checker_, label) THEN best
        ELSE IF HasDuplicationConflictsAtNode(a1, q, node)
        THEN Resolve(best, label, a1, GetNodeWithDuplicationConflict(a1, q, node))
        ELSE Better(best, label, GetNodeScore(a1, q, eng, node), -1)
      RECURSIVE Best(_, _, _)
      Best(candidates, i, best) ==
        IF i > Len(candidates) THEN best
        ELSE Best(candidates, i + 1, Try(best, candidates[i], SetLabel(a, node, candidates[i])))
      Assign(b) ==
        IF b.node2 # -1 THEN SetLabel(SetLabel(a, node, b.label), b.node2, initial_label)
        ELSE SetLabel(a, node, b.label)
      Search(candidates) ==
        IF ~a.assignments_[node].must_infer \/ candidates = <<>> THEN a
        ELSE Assign(Best(candidates, 1, [label |-> initial_label,
                                         score |-> GetNodeScore(a, q, eng, node),
                                         node2 |-> -1]))
  IN Search(GetLabelCandidates(a, q, eng, node, beam_size))

RECURSIVE LocalPerNodeOptimizationPassWithDuplicateNameResolutionFrom(_, _, _, _, _)
LocalPerNodeOptimizationPassWithDuplicateNameResolutionFrom(a, q, eng, beam_size, node) ==
  IF node >= NumNodes(a) THEN a
  ELSE LocalPerNodeOptimizationPassWithDuplicateNameResolutionFrom(
         PerNodeStepWithDuplicateNameResolution(a, q, eng, node, beam_size),
         q, eng, beam_size, node + 1)

LocalPerNodeOptimizationPassWithDuplicateNameResolution(a, q, eng, beam_size) ==
  LocalPerNodeOptimizationPassWithDuplicateNameResolutionFrom(a, q, eng, beam_size, 0)

\* The loop body of LocalPerArcOptimizationPass for the arc q.arcs_[ai].
PerArcStep(a, q, eng, ai, beam_size) ==
  LET arc == q.arcs_[ai]
      node_a == arc[1]
      node_b == arc[2]
      candidates == FindWithDefault(eng.best_features_for_type_, arc[3], <<>>)
      Both(x) == GetNodeScore(x, q, eng, node_a) + GetNodeScore(x, q, eng, node_b)
      Better(best, a1, score) ==
        IF score > best.score
        THEN [a |-> LabelOf(a1, node_a), b |-> LabelOf(a1, node_b), score |-> score]
        ELSE best
      Try(best, a1) ==
        IF \/ HasDuplicationConflictsAtNode(a1, q, node_a)
           \/ HasDuplicationConflictsAtNode(a1, q, node_b)
        THEN best
        ELSE IF ~IsLabelValid(eng.label_checker_, LabelOf(a1, node_a)) THEN best
        ELSE IF ~IsLabelValid(eng.label_checker_, LabelOf(a1, node_b)) THEN best
        ELSE Better(best, a1, Both(a1))
      RECURSIVE Best(_, _)
      Best(i, best) ==
        IF i > Min2(beam_size, Len(candidates)) THEN best
        ELSE Best(i + 1, Try(best, SetLabel(SetLabel(a, node_a, candidates[i][2][1]),
                                            node_b, candidates[i][2][2])))
      Assign(best) == SetLabel(SetLabel(a, node_a, best.a), node_b, best.b)
  IN IF node_a = node_b THEN a
     ELSE IF ~a.assignments_[node_a].must_infer \/ ~a.assignments_[node_b].must_infer THEN a
     ELSE IF Len(q.arcs_adjacent_to_node_[node_a])
               > FLAGS.skip_per_arc_optimization_for_nodes_above_degree THEN a
     ELSE IF Len(q.arcs_adjacent_to_node_[node_b])
               > FLAGS.skip_per_arc_optimization_for_nodes_above_degree THEN a
     ELSE IF candidates = <<>> THEN a
     ELSE Assign(Best(1, [a |-> LabelOf(a, node_a), b |-> LabelOf(a, node_b),
                          score |-> Both(a)]))

RECURSIVE LocalPerArcOptimizationPassFrom(_, _, _, _, _)
LocalPerArcOptimizationPassFrom(a, q, eng, beam_size, ai) ==
  IF ai > Len(q.arcs_) THEN a
  ELSE LocalPerArcOptimizationPassFrom(PerArcStep(a, q, eng, ai, beam_size),
                                       q, eng, beam_size, ai + 1)

LocalPerArcOptimizationPass(a, q, eng, beam_size) ==
  LocalPerArcOptimizationPassFrom(a, q, eng, beam_size, 1)

\* x / n on uint64 for 0 < n < 2^23, from the most significant byte down.
U64Div(x, n) ==
  LET r8 == x[8] % n
      r7 == (r8 * 256 + x[7]) % n
      r6 == (r7 * 256 + x[6]) % n
      r5 == (r6 * 256 + x[5]) % n
      r4 == (r5 * 256 + x[4]) % n
      r3 == (r4 * 256 + x[3]) % n
      r2 == (r3 * 256 + x[2]) % n
  IN <<(r2 * 256 + x[1]) \div n, (r3 * 256 + x[2]) \div n, (r4 * 256 + x[3]) \div n,
       (r5 * 256 + x[4]) \div n, (r6 * 256 + x[5]) \div n, (r7 * 256 + x[6]) \div n,
       (r8 * 256 + x[7]) \div n, x[8] \div n>>

\* x > y on uint64.
U64Greater(x, y) ==
  \E k \in 1..8 : x[k] > y[k] /\ \A j \in (k + 1)..8 : x[j] = y[j]

UINT64_MAX == <<255, 255, 255, 255, 255, 255, 255, 255>>

\* The loop of CalculateFactorial: return -1 is the largest uint64.
RECURSIVE FactorialLoop(_, _)
FactorialLoop(result, i) ==
  IF i <= 0 THEN result
  ELSE IF U64Greater(result, U64Div(UINT64_MAX, i)) THEN UINT64_MAX
  ELSE FactorialLoop(U64Mul(result, U64FromNat(i)), i - 1)

CalculateFactorial(n) == FactorialLoop(U64FromNat(1), n)

\* num_permutations < 0 || num_permutations > FLAGS_permutations_beam_size on
\* unsigned 64-bit values: the first test is never true.
TooManyPermutations(num_permutations, permutations_beam_size) ==
  U64Greater(num_permutations, permutations_beam_size)

\* The distinct arrangements of the labels s in lexicographic order: what
\* std::sort followed by repeated std::next_permutation walks through.
Arrangements(s) ==
  LET idx == 1..Len(s)
      perms == {p \in [idx -> idx] : \A i, j \in idx : i # j => p[i] # p[j]}
  IN SetToLexSeq({[i \in idx |-> s[p[i]]] : p \in perms})

\* The labels of the candidate factor that are left for the infer nodes.
RECURSIVE CandidateInfLabels(_, _)
CandidateInfLabels(candidate, giv_labels_copy) ==
  IF candidate = <<>> THEN <<>>
  ELSE LET js == {j \in 1..Len(giv_labels_copy) : giv_labels_copy[j] = Head(candidate)}
       IN IF js # {}
          THEN CandidateInfLabels(Tail(candidate),
                                  RemoveAt(giv_labels_copy, CHOOSE j \in js : TRUE))
          ELSE <<Head(candidate)>> \o CandidateInfLabels(Tail(candidate), giv_labels_copy)

\* A variant that tries a single shuffled order, whatever the beam.
OneShuffledOrder(candidate_inf_labels, shuffles, j) ==
  <<Arrangements(candidate_inf_labels)[(shuffles[1] % Len(Arrangements(candidate_inf_labels))) + 1]>>

\* The label orders tried for candidate j.  The sampling branch tries the
\* order at hand and then whatever each std::random_shuffle leaves behind:
\* shuffles is the sequence of the generator's draws, read round-robin.
PermutationsTried(candidate_inf_labels, shuffles, j) ==
  LET arr == Arrangements(candidate_inf_labels)
      beam == FLAGS.permutations_beam_size
  IN IF TooManyPermutations(CalculateFactorial(Len(candidate_inf_labels)), U64FromNat(beam))
     THEN [t \in 1..beam |->
             IF t = 1 THEN candidate_inf_labels
             ELSE arr[(shuffles[((j + t) % Len(shuffles)) + 1] % Len(arr)) + 1]]
     ELSE Take(arr, beam)

\* The assignment with the labels given to the infer nodes, one after another.
RECURSIVE AssignAll(_, _, _, _)
AssignAll(a, inf_nodes, labels, z) ==
  IF z > Len(inf_nodes) THEN a
  ELSE AssignAll(SetLabel(a, inf_nodes[z], labels[z]), inf_nodes, labels, z + 1)

\* A variant that keeps the labelling of the lower score.
PerformPermutationOptimizationOfLowerScore(a, q, eng, inf_nodes, candidate_inf_labels, best) ==
  LET Better(a1, score) ==
        IF score < best.score
        THEN [assignments |-> [z \in 1..Len(inf_nodes) |-> LabelOf(a1, inf_nodes[z])],
              score |-> score]
        ELSE best
      Try(a1) ==
        IF \E z \in 1..Len(inf_nodes) : HasDuplicationConflictsAtNode(a1, q, inf_nodes[z])
        THEN best
        ELSE Better(a1, SumSeq([z \in 1..Len(inf_nodes) |-> GetNodeScore(a1, q, eng, inf_nodes[z])]))
  IN Try(AssignAll(a, inf_nodes, candidate_inf_labels, 1))

\* PerformPermutationOptimization: best is [assignments, score].
PerformPermutationOptimization(a, q, eng, inf_nodes, candidate_inf_labels, best) ==
  LET Better(a1, score) ==
        IF score > best.score
        THEN [assignments |-> [z \in 1..Len(inf_nodes) |-> LabelOf(a1, inf_nodes[z])],
              score |-> score]
        ELSE best
      Try(a1) ==
        IF \E z \in 1..Len(inf_nodes) : HasDuplicationConflictsAtNode(a1, q, inf_nodes[z])
        THEN best
        ELSE Better(a1, SumSeq([z \in 1..Len(inf_nodes) |-> GetNodeScore(a1, q, eng, inf_nodes[z])]))
  IN Try(AssignAll(a, inf_nodes, candidate_inf_labels, 1))

\* The given labels and the infer nodes of the factor q.factors_[fi].
FactorGivLabels(a, factor) ==
  MakeFactor(SelectSeq([i \in 1..Len(factor) |-> IF a.assignments_[factor[i]].must_infer
                                                 THEN -2 ELSE LabelOf(a, factor[i])],
                       LAMBDA l : l # -2))

FactorInfNodes(a, factor) == SelectSeq(factor, LAMBDA v : a.assignments_[v].must_infer)

\* The candidate factors that hold every given label often enough.
FactorsCandidates(a, eng, factor, beam_size, dangling) ==
  LET giv_labels == FactorGivLabels(a, factor)
  IN SelectSeq(GetFactorCandidates(eng, Len(factor), giv_labels, beam_size, dangling),
               LAMBDA c : \A l \in Range(giv_labels) : Count(c, l) >= Count(giv_labels, l))

\* The loop body of LocalPerFactorOptimizationPass for the factor q.factors_[fi].
\* rnd is [shuffles, dangling]: the draws of the random generator and the
\* value the read through the erased iterator of GetFactors yields.
PerFactorStep(a, q, eng, fi, beam_size, rnd) ==
  LET factor == q.factors_[fi]
      Orders(labels, j) ==
        IF \A z \in 1..Len(labels) : IsLabelValid(eng.label_checker_, labels[z])
        THEN PermutationsTried(labels, rnd.shuffles, j)
        ELSE <<>>
      RECURSIVE Tried(_, _, _)
      Tried(cands, giv_labels, j) ==
        IF j > Len(cands) THEN <<>>
        ELSE Orders(CandidateInfLabels(cands[j], giv_labels), j) \o Tried(cands, giv_labels, j + 1)
      RECURSIVE Best(_, _, _, _)
      Best(inf_nodes, tried, t, best) ==
        IF t > Len(tried) THEN best
        ELSE Best(inf_nodes, tried, t + 1,
                  PerformPermutationOptimization(a, q, eng, inf_nodes, tried[t], best))
      Optimize(inf_nodes, tried) ==
        AssignAll(a, inf_nodes,
                  Best(inf_nodes, tried, 1,
                       [assignments |-> [z \in 1..Len(inf_nodes) |-> LabelOf(a, inf_nodes[z])],
                        score |-> SumSeq([z \in 1..Len(inf_nodes) |->
                                            GetNodeScore(a, q, eng, inf_nodes[z])])]).assignments,
                  1)
  IN Optimize(FactorInfNodes(a, factor),
              Tried(FactorsCandidates(a, eng, factor, beam_size, rnd.dangling),
                    FactorGivLabels(a, factor), 1))

RECURSIVE LocalPerFactorOptimizationPassFrom(_, _, _, _, _, _)
LocalPerFactorOptimizationPassFrom(a, q, eng, beam_size, rnd, fi) ==
  IF fi > Len(q.factors_) THEN a
  ELSE LocalPerFactorOptimizationPassFrom(PerFactorStep(a, q, eng, fi, beam_size, rnd),
                                          q, eng, beam_size, rnd, fi + 1)

LocalPerFactorOptimizationPass(a, q, eng, beam_size, rnd) ==
  LocalPerFactorOptimizationPassFrom(a, q, eng, beam_size, rnd, 1)

(***************************************************************************)
(* LoopyBPInference: [node_label_to_score_, labels_at_node_].  A BPScore   *)
(* is [total_score, incoming_node_to_message]; the messages are held as a  *)
(* sequence of [node, label, score] in the order the unordered_map         *)
(* iterates them: libstdc++ yields the keys of distinct buckets in the     *)
(* reverse of their insertion order.                                       *)
(***************************************************************************)
LoopyBPInferenceNew(a) ==
  [node_label_to_score_ |-> <<>>, labels_at_node_ |-> [n \in Nodes(a) |-> <<>>]]

IncomingMessageNew(node) == [node |-> node, label |-> -1, score |-> 0]

\* The incoming messages of a new BPScore at node.
RECURSIVE NewMessages(_, _, _, _)
NewMessages(msgs, arcs, node, i) ==
  IF i > Len(arcs) THEN msgs
  ELSE LET Put(m, other) == IF \E k \in 1..Len(m) : m[k].node = other
                            THEN [k \in 1..Len(m) |-> IF m[k].node = other
                                                      THEN IncomingMessageNew(other) ELSE m[k]]
                            ELSE <<IncomingMessageNew(other)>> \o m
           m1 == IF arcs[i][1] = node THEN Put(msgs, arcs[i][2]) ELSE msgs
           m2 == IF arcs[i][2] = node THEN Put(m1, arcs[i][1]) ELSE m1
       IN NewMessages(m2, arcs, node, i + 1)

PutPossibleLabelAtNode(bp, a, q, node, label) ==
  IF <<node, label>> \in DOMAIN bp.node_label_to_score_ THEN bp
  ELSE [node_label_to_score_ |->
          MapPut(bp.node_label_to_score_, <<node, label>>,
                 [total_score |-> IF label = a.penalties_[node].label
                                  THEN - a.penalties_[node].penalty ELSE 0,
                  incoming_node_to_message |->
                     NewMessages(<<>>, q.arcs_adjacent_to_node_[node], node, 1)]),
        labels_at_node_ |-> [bp.labels_at_node_ EXCEPT ![node] = Append(@, label)]]

RECURSIVE PutLabels(_, _, _, _, _, _)
PutLabels(bp, a, q, node, v, i) ==
  IF i > Len(v) THEN bp
  ELSE PutLabels(PutPossibleLabelAtNode(bp, a, q, node, v[i][2]), a, q, node, v, i + 1)

RECURSIVE PutPossibleLabelsAtAdjacentNodesFrom(_, _, _, _, _, _, _, _)
PutPossibleLabelsAtAdjacentNodesFrom(bp, a, q, eng, node, label, beam_size, i) ==
  LET arcs == q.arcs_adjacent_to_node_[node]
      arc == arcs[i]
      va == Take(FindWithDefault(eng.best_features_for_a_type_, <<label, arc[3]>>, <<>>),
                 beam_size)
      vb == Take(FindWithDefault(eng.best_features_for_b_type_, <<label, arc[3]>>, <<>>),
                 beam_size)
      bp1 == IF arc[1] = node /\ a.assignments_[arc[2]].must_infer
             THEN PutLabels(bp, a, q, arc[2], va, 1) ELSE bp
      bp2 == IF arc[2] = node /\ a.assignments_[arc[1]].must_infer
             THEN PutLabels(bp1, a, q, arc[1], vb, 1) ELSE bp1
  IN IF i > Len(arcs) THEN bp
     ELSE PutPossibleLabelsAtAdjacentNodesFrom(bp2, a, q, eng, node, label, beam_size, i + 1)

PutPossibleLabelsAtAdjacentNodes(bp, a, q, eng, node, label, beam_size) ==
  PutPossibleLabelsAtAdjacentNodesFrom(bp, a, q, eng, node, label, beam_size, 1)

RECURSIVE InitPossibleLabelsFrom(_, _, _, _, _)
InitPossibleLabelsFrom(bp, a, q, eng, i) ==
  IF i >= NumNodes(a) THEN bp
  ELSE IF a.assignments_[i].must_infer
  THEN InitPossibleLabelsFrom(
         PutPossibleLabelsAtAdjacentNodes(
           PutPossibleLabelAtNode(bp, a, q, i, LabelOf(a, i)),
           a, q, eng, i, LabelOf(a, i), kLoopyBPBeamSize),
         a, q, eng, i + 1)
  ELSE InitPossibleLabelsFrom(bp, a, q, eng, i + 1)

InitPossibleLabels(bp, a, q, eng) == InitPossibleLabelsFrom(bp, a, q, eng, 0)

\* The score of the message a BPScore holds from node (0 when it holds none).
MessageScore(s, node) ==
  LET ks == {k \in 1..Len(s.incoming_node_to_message) :
               s.incoming_node_to_message[k].node = node}
  IN IF ks = {} THEN 0 ELSE s.incoming_node_to_message[CHOOSE k \in ks : TRUE].score

GetBestMessageFromNode(bp, a, q, eng, from_node, to_node, to_label) ==
  LET labels == bp.labels_at_node_[from_node]
      Better(best, label, current_score) ==
        IF current_score > best.score
        THEN [node |-> from_node, label |-> label, score |-> current_score]
        ELSE best
      Score(s, label) ==
        s.total_score - MessageScore(s, to_node)
        + GetNodePairScore(a, q, eng, from_node, to_node, label, to_label)
      RECURSIVE Best(_, _)
      Best(i, best) ==
        IF i > Len(labels) THEN best
        ELSE Best(i + 1, Better(best, labels[i],
                                Score(bp.node_label_to_score_[<<from_node, labels[i]>>], labels[i])))
  IN IF ~a.assignments_[from_node].must_infer
     THEN [node |-> from_node, label |-> LabelOf(a, from_node),
           score |-> GetNodePairScore(a, q, eng, from_node, to_node,
                                      LabelOf(a, from_node), to_label)]
     ELSE Best(1, [node |-> from_node, label |-> -1, score |-> 0])

\* The messages of the BPScore at <<node, label>> pulled one after another.
RECURSIVE PullMessages(_, _, _, _, _, _, _)
PullMessages(bp, a, q, eng, node, label, k) ==
  LET score == bp.node_label_to_score_[<<node, label>>]
      Replace(old_msg, new_msg) ==
        [total_score |-> score.total_score + (new_msg.score - old_msg.score),
         incoming_node_to_message |-> [score.incoming_node_to_message EXCEPT ![k] = new_msg]]
      Pull(old_msg) ==
        Replace(old_msg, GetBestMessageFromNode(bp, a, q, eng, old_msg.node, node, label))
  IN IF k > Len(score.incoming_node_to_message) THEN bp
     ELSE PullMessages([bp EXCEPT !.node_label_to_score_[<<node, label>>] =
                                      Pull(score.incoming_node_to_message[k])],
                       a, q, eng, node, label, k + 1)

RECURSIVE PullMessagesFromAdjacentNodesFrom(_, _, _, _, _, _)
PullMessagesFromAdjacentNodesFrom(bp, a, q, eng, node, li) ==
  IF node >= NumNodes(a) THEN bp
  ELSE IF li > Len(bp.labels_at_node_[node])
  THEN PullMessagesFromAdjacentNodesFrom(bp, a, q, eng, node + 1, 1)
  ELSE PullMessagesFromAdjacentNodesFrom(
         PullMessages(bp, a, q, eng, node, bp.labels_at_node_[node][li], 1),
         a, q, eng, node, li + 1)

PullMessagesFromAdjacentNodes(bp, a, q, eng) ==
  PullMessagesFromAdjacentNodesFrom(bp, a, q, eng, 0, 1)

\* std::greater on pair<double, IntPair>.
ScoreGreater(x, y) == x[1] > y[1] \/ (x[1] = y[1] /\ LexLess(y[2], x[2]))

\* The traversal of TraceBack: st is [a, node_visited, traversal_queue, si].
RECURSIVE TraceBackLoop(_, _, _)
TraceBackLoop(st, bp, scores) ==
  IF st.traversal_queue # <<>>
  THEN LET node_label == Head(st.traversal_queue)
           node == node_label[1]
           s == FindWithDefault(bp.node_label_to_score_, node_label,
                                [total_score |-> 0, incoming_node_to_message |-> <<>>])
           msgs == s.incoming_node_to_message
       IN IF st.node_visited[node]
          THEN TraceBackLoop([st EXCEPT !.traversal_queue = Tail(@)], bp, scores)
          ELSE TraceBackLoop(
                 [st EXCEPT
                    !.node_visited[node] = TRUE,
                    !.a = IF @.assignments_[node].must_infer
                          THEN SetLabel(@, node, node_label[2]) ELSE @,
                    !.traversal_queue =
                       Tail(@) \o [k \in 1..Len(msgs) |-> <<msgs[k].node, msgs[k].label>>]],
                 bp, scores)
  ELSE IF st.si <= Len(scores)
  THEN TraceBackLoop([st EXCEPT !.traversal_queue = <<scores[st.si][2]>>, !.si = @ + 1],
                     bp, scores)
  ELSE st.a

TraceBack(bp, a) ==
  LET keys == DOMAIN bp.node_label_to_score_
      scores == SetToSeqBy({<<bp.node_label_to_score_[k].total_score, k>> : k \in keys},
                           ScoreGreater)
  IN TraceBackLoop([a |-> a, node_visited |-> [n \in Nodes(a) |-> FALSE],
                    traversal_queue |-> <<>>, si |-> 1], bp, scores)

RECURSIVE PullPasses(_, _, _, _, _)
PullPasses(bp, a, q, eng, pass) ==
  IF pass >= FLAGS.graph_loopy_bp_steps_per_pass THEN bp
  ELSE PullPasses(PullMessagesFromAdjacentNodes(bp, a, q, eng), a, q, eng, pass + 1)

\* LoopyBPInference bp(*a, *this); bp.Run(a);
LoopyBPRun(a, q, eng) ==
  TraceBack(PullPasses(InitPossibleLabels(LoopyBPInferenceNew(a), a, q, eng), a, q, eng, 0), a)

(***************************************************************************)
(* PerformAssignmentOptimization.  Its activation is the record            *)
(* [a, pc, pass, pos, score, per_node_beam_size, per_arc_beam_size,        *)
(* completed]: a is the assignment it works on, pc the statement it is at, *)
(* pos the loop position inside the per-node, per-arc or per-factor pass,  *)
(* completed the pass that the last step brought to its end ("none" when   *)
(* the last step did not end a pass).                                      *)
(***************************************************************************)
Passes ==
  Max2(FLAGS.graph_per_node_passes, Max2(FLAGS.graph_loopy_bp_passes, FLAGS.graph_per_arc_passes))

\* The frame of PerformAssignmentOptimization; before is the assignment as it
\* was when the iteration of the loop in progress started, held the
\* assignments the call started with and had at the end of each iteration.
OptimizationStart(a) ==
  [a |-> a, pc |-> "replace", pass |-> 0, pos |-> 0, score |-> 0,
   per_node_beam_size |-> kStartPerNodeBeamSize, per_arc_beam_size |-> kStartPerArcBeamSize,
   completed |-> "none", before |-> a, held |-> {a}]

\* if (unknown_label_ >= 0) a->ReplaceLabelsWithUnknown(*this); score = total score
StepReplace(fr, q, eng) ==
  LET a1 == IF eng.unknown_label_ >= 0 THEN ReplaceLabelsWithUnknown(fr.a, eng) ELSE fr.a
  IN [fr EXCEPT !.a = a1, !.score = GetTotalScore(a1, q, eng), !.pc = "greedy",
                !.completed = "none"]

StepGreedy(fr, q, eng) ==
  LET Assigned(a1) ==
        [fr EXCEPT !.a = a1, !.score = GetTotalScore(a1, q, eng),
                   !.pc = IF 0 < Passes THEN "bp" ELSE "done", !.completed = "greedy"]
  IN IF FLAGS.initial_greedy_assignment_pass
     THEN Assigned(InitialGreedyAssignmentPass(fr.a, q, eng))
     ELSE [fr EXCEPT !.pc = IF 0 < Passes THEN "bp" ELSE "done", !.completed = "none"]

StepLoopyBP(fr, q, eng) ==
  [fr EXCEPT !.a = IF fr.pass < FLAGS.graph_loopy_bp_passes THEN LoopyBPRun(@, q, eng) ELSE @,
             !.pc = "node", !.pos = 0, !.before = fr.a,
             !.completed = IF fr.pass < FLAGS.graph_loopy_bp_passes THEN "bp" ELSE "none"]

\* One node of the per-node pass, or the end of the pass.
StepPerNode(fr, q, eng) ==
  IF fr.pass < FLAGS.graph_per_node_passes /\ fr.pos < NumNodes(fr.a)
  THEN [fr EXCEPT
          !.a = IF FLAGS.duplicate_name_resolution
                THEN PerNodeStepWithDuplicateNameResolution(@, q, eng, fr.pos,
                                                            fr.per_node_beam_size)
                ELSE PerNodeStep(@, q, eng, fr.pos, fr.per_node_beam_size),
          !.pos = @ + 1, !.completed = "none"]
  ELSE [fr EXCEPT
          !.per_node_beam_size = IF fr.pass < FLAGS.graph_per_node_passes
                                 THEN Min2(@ * 2, kMaxPerNodeBeamSize) ELSE @,
          !.pc = "arc", !.pos = 1,
          !.completed = IF fr.pass < FLAGS.graph_per_node_passes THEN "node" ELSE "none"]

\* One arc of the per-arc pass, or the end of the pass.
StepPerArc(fr, q, eng) ==
  IF fr.pass < FLAGS.graph_per_arc_passes /\ fr.pos <= Len(q.arcs_)
  THEN [fr EXCEPT !.a = PerArcStep(@, q, eng, fr.pos, fr.per_arc_beam_size), !.pos = @ + 1,
                  !.completed = "none"]
  ELSE [fr EXCEPT
          !.per_arc_beam_size = IF fr.pass < FLAGS.graph_per_arc_passes
                                THEN Min2(@ * 2, kMaxPerArcBeamSize) ELSE @,
          !.pc = "factor", !.pos = 1,
          !.completed = IF fr.pass < FLAGS.graph_per_arc_passes THEN "arc" ELSE "none"]

\* One factor of the per-factor pass, or the end of the pass.
StepPerFactor(fr, q, eng, rnd) ==
  IF fr.pass < FLAGS.graph_per_factor_passes /\ fr.pos <= Len(q.factors_)
  THEN [fr EXCEPT !.a = PerFactorStep(@, q, eng, fr.pos, FLAGS.factors_limit, rnd),
                  !.pos = @ + 1, !.completed = "none"]
  ELSE [fr EXCEPT !.pc = "score", !.pos = 0,
                  !.completed = IF fr.pass < FLAGS.graph_per_factor_passes THEN "factor"
                                ELSE "none"]

\* The end of the loop body: stop when the score did not change.
StepScore(fr, q, eng) ==
  LET updated_score == GetTotalScore(fr.a, q, eng)
  IN IF updated_score = fr.score
     THEN [fr EXCEPT !.pc = "done", !.completed = "none", !.held = @ \cup {fr.a}]
     ELSE [fr EXCEPT !.score = updated_score, !.pass = @ + 1,
                     !.pc = IF fr.pass + 1 < Passes THEN "bp" ELSE "done",
                     !.completed = "none", !.held = @ \cup {fr.a}]

OptimizationStep(fr, q, eng, rnd) ==
  CASE fr.pc = "replace" -> StepReplace(fr, q, eng)
    [] fr.pc = "greedy" -> StepGreedy(fr, q, eng)
    [] fr.pc = "bp" -> StepLoopyBP(fr, q, eng)
    [] fr.pc = "node" -> StepPerNode(fr, q, eng)
    [] fr.pc = "arc" -> StepPerArc(fr, q, eng)
    [] fr.pc = "factor" -> StepPerFactor(fr, q, eng, rnd)
    [] fr.pc = "score" -> StepScore(fr, q, eng)
    [] OTHER -> fr

RECURSIVE OptimizationRun(_, _, _, _)
OptimizationRun(fr, q, eng, rnd) ==
  IF fr.pc = "done" THEN fr.a ELSE OptimizationRun(OptimizationStep(fr, q, eng, rnd), q, eng, rnd)

PerformAssignmentOptimization(a, q, eng, rnd) ==
  OptimizationRun(OptimizationStart(a), q, eng, rnd)

MapInference(a, q, eng, rnd) == PerformAssignmentOptimization(a, q, eng, rnd)

(***************************************************************************)
(* The state of the program                                                *)
(***************************************************************************)
VARIABLES
  input,       \* the training data: a sequence of Query protos
  inference,   \* the GraphInference object that is trained and serves requests
  phase,       \* what the process is doing
  count,       \* InitTrain: the training samples added to the model so far
  request,     \* the Query proto of the request in progress
  query,       \* its GraphQuery
  start,       \* the assignment PerformAssignmentOptimization was called with
  opt,         \* the activation of PerformAssignmentOptimization
  runs,        \* the assignments that the completed runs on the request returned
  train,       \* the activation of TrainPL or TrainSSVM
  threads,     \* the threads of ParallelForeachInput
  log,         \* history of the training pass in progress and of the passes before it
  files,       \* the model files on disk
  loaded,      \* the GraphInference object that loaded the model files
  unit,        \* an object on its own: a StringSet, a LabelChecker or a factor
  calls        \* the calls made on unit so far, each with what it returned

vars == <<FLAGS, input, inference, phase, count, request, query, start, opt, runs,
          train, threads, log, files, loaded, unit, calls>>

(***************************************************************************)
(* Inputs: query protos.  A string is the tuple of its character codes.    *)
(***************************************************************************)
BinaryRelation(a, b, relation) ==
  [kind |-> "binary_relation", first_node |-> a, second_node |-> b, relation |-> relation]

Constraint(nodes) == [kind |-> "constraint", nodes |-> nodes]

FactorVariables(nodes) == [kind |-> "factor_variables", nodes |-> nodes]

NodeAssignment(v, label, is_given) == [node_index |-> v, label |-> label, given |-> is_given]

Query(features, assignments) == [features |-> features, node_assignments |-> assignments]

StrA == <<97>>
StrB == <<98>>
StrC == <<99>>
StrR == <<114>>
StrS == <<115>>
StrU == <<117>>
StrX == <<120>>

\* The lines "+.*" and "-c" of a rules file.
RuleAll == <<43, 46, 42>>
RuleNotC == <<45, 99>>

(***************************************************************************)
(* JsonAdapter (n2p/json_server/json_adapter.cpp): queries and answers in  *)
(* JSON.  A JSON query is [query, assign]; an element of query holds an    *)
(* arc (f2), a scope (cn) or a factor (group), an element of assign a node *)
(* value v and its label under the key inf or giv.  The numberer is the    *)
(* sequence number_to_value_: a value has the number of its position,      *)
(* counted from 0.                                                         *)
(***************************************************************************)
JsonArc(a, b, f2) == [kind |-> "f2", a |-> a, b |-> b, f2 |-> f2]

JsonScope(n) == [kind |-> "cn", n |-> n]

JsonGroup(group) == [kind |-> "group", group |-> group]

JsonInf(v, label) == [v |-> v, key |-> "inf", label |-> label]

JsonGiv(v, label) == [v |-> v, key |-> "giv", label |-> label]

JsonQuery(features, assign) == [query |-> features, assign |-> assign]

JsonValueNumbererNew == <<>>

ValueToNumberWithDefault(numberer, val, default_number) ==
  LET at == {i \in 1..Len(numberer) : numberer[i] = val}
  IN IF at = {} THEN default_number ELSE (CHOOSE i \in at : TRUE) - 1

\* The numberer after ValueToNumber(val).
Numbered(numberer, val) ==
  IF ValueToNumberWithDefault(numberer, val, -1) = -1 THEN Append(numberer, val) ELSE numberer

\* The number ValueToNumber(val) returns.
ValueToNumber(numberer, val) == ValueToNumberWithDefault(Numbered(numberer, val), val, -1)

\* ValueToNumber on the values vals[i..], one after another: [numberer, numbers].
RECURSIVE ValuesToNumbers(_, _, _)
ValuesToNumbers(st, vals, i) ==
  IF i > Len(vals) THEN st
  ELSE ValuesToNumbers([numberer |-> Numbered(st.numberer, vals[i]),
                        numbers |-> Append(st.numbers, ValueToNumber(st.numberer, vals[i]))],
                       vals, i + 1)

\* The loop of JsonToQuery over json_query["query"]: [numberer, features].
RECURSIVE JsonFeatures(_, _, _)
JsonFeatures(st, items, i) ==
  IF i > Len(items) THEN st
  ELSE LET item == items[i]
           Numbers(vals) == ValuesToNumbers([numberer |-> st.numberer, numbers |-> <<>>], vals, 1)
           Arc(n) == [numberer |-> n.numberer,
                      features |-> Append(st.features,
                                          BinaryRelation(n.numbers[1], n.numbers[2], item.f2))]
           Scope(n) == [numberer |-> n.numberer,
                        features |-> Append(st.features,
                                            Constraint(Unique(SortWith(n.numbers, IntLess))))]
           Group(n) == [numberer |-> n.numberer,
                        features |-> Append(st.features, FactorVariables(n.numbers))]
       IN JsonFeatures(IF item.kind = "f2" THEN Arc(Numbers(<<item.a, item.b>>))
                       ELSE IF item.kind = "cn" THEN Scope(Numbers(item.n))
                       ELSE Group(Numbers(item.group)),
                       items, i + 1)

\* The node assignment of the proto for an element of json_query["assign"]:
\* node_index keeps its default 0 when the numberer does not know the value.
JsonAssignment(numberer, a) ==
  LET Index(number) == IF number # -1 THEN number ELSE 0
  IN NodeAssignment(Index(ValueToNumberWithDefault(numberer, a.v, -1)), a.label, a.key = "giv")

\* JsonToQuery: the adapter afterwards and the Query proto.
JsonToQuery(numberer, json_query) ==
  LET Assign(st) ==
        [numberer |-> st.numberer,
         query |-> Query(st.features,
                         [i \in 1..Len(json_query.assign) |->
                            JsonAssignment(st.numberer, json_query.assign[i])])]
  IN Assign(JsonFeatures([numberer |-> numberer, features |-> <<>>], json_query.query, 1))

\* LabelSet::GetLabelName
GetLabelName(ls, eng, label_id) ==
  IF label_id >= ls.ss_size_ THEN ls.added_labels_by_label_id_[label_id - ls.ss_size_ + 1]
  ELSE getString(eng.strings_, label_id)

\* FillInferResponse: the node assignments of the InferResponse proto.
FillInferResponse(a, q, eng) ==
  LET labelled == SetToSortedSeq({n \in DOMAIN a.assignments_ : a.assignments_[n].label >= 0})
  IN [i \in 1..Len(labelled) |->
        NodeAssignment(labelled[i],
                       GetLabelName(q.label_set_, eng, a.assignments_[labelled[i]].label),
                       ~a.assignments_[labelled[i]].must_infer)]

(***************************************************************************)
(* Configurations.  DefaultFlags holds the defaults of the flags; the      *)
(* rules file that --valid_labels names holds the lines "+.*" and "-c".    *)
(***************************************************************************)
DefaultFlags ==
  [initial_greedy_assignment_pass |-> TRUE, duplicate_name_resolution |-> TRUE,
   graph_per_node_passes |-> 8, graph_per_arc_passes |-> 5, graph_per_factor_passes |-> 1,
   graph_loopy_bp_passes |-> 0, graph_loopy_bp_steps_per_pass |-> 3,
   skip_per_arc_optimization_for_nodes_above_degree |-> 32, use_factors |-> TRUE,
   maximum_depth |-> 2, factors_limit |-> 128, permutations_beam_size |-> 64,
   valid_labels |-> <<RuleAll, RuleNotC>>, unknown_label |-> <<>>,
   min_freq_known_label |-> 0, hogwild |-> TRUE, num_threads |-> 8,
   num_training_passes |-> 24, start_learning_rate |-> WOne \div 10,
   stop_learning_rate |-> WOne \div 10000, regularization_const |-> 2,
   svm_margin |-> WOne \div 10, training_method |-> "ssvm", max_labels_z |-> 16,
   num_pass_change_training |-> 10, initial_learning_rate_ssvm |-> WOne \div 10]

\* --graph_loopy_bp_passes=1
LoopyBPFlags == [DefaultFlags EXCEPT !.graph_loopy_bp_passes = 1]

\* --unknown_label=u --min_freq_known_label=2
UnknownLabelFlags == [DefaultFlags EXCEPT !.unknown_label = StrU, !.min_freq_known_label = 2]

\* --noinitial_greedy_assignment_pass --noduplicate_name_resolution
\* --graph_per_node_passes=0 --graph_per_arc_passes=1
PerFactorFlags ==
  [DefaultFlags EXCEPT !.initial_greedy_assignment_pass = FALSE,
                       !.duplicate_name_resolution = FALSE,
                       !.graph_per_node_passes = 0, !.graph_per_arc_passes = 1]

InferenceFlags == {DefaultFlags, LoopyBPFlags, UnknownLabelFlags, PerFactorFlags}

\* Training samples.
SampleAA == Query(<<BinaryRelation(0, 1, StrR)>>,
                  <<NodeAssignment(0, StrA, FALSE), NodeAssignment(1, StrA, FALSE)>>)

SampleCB == Query(<<BinaryRelation(0, 1, StrR)>>,
                  <<NodeAssignment(0, StrC, FALSE), NodeAssignment(1, StrB, FALSE)>>)

SampleFactor ==
  Query(<<BinaryRelation(0, 2, StrR), FactorVariables(<<0, 1>>)>>,
        <<NodeAssignment(1, StrA, FALSE), NodeAssignment(0, StrB, FALSE),
          NodeAssignment(2, StrX, TRUE)>>)

\* The records of the tests of MapInference (tests/unit_tests.cpp).
StrBase == <<98, 97, 115, 101>>

StrProps == <<112, 114, 111, 112, 115>>

StrSplit == <<115, 112, 108, 105, 116>>

StrASTNode == <<65, 83, 84, 95, 78, 111, 100, 101>>

StrStep == <<115, 116, 101, 112>>

StrMock == <<109, 111, 99, 107>>

\* The assignment of the records: nodes 0 and 2 are to be inferred.
TestAssign(label0, label1, label2) ==
  <<JsonInf(0, label0), JsonGiv(1, label1), JsonInf(2, label2),
    JsonGiv(3, StrSplit), JsonGiv(4, StrStep)>>

PairwiseFeature == <<JsonArc(0, 3, StrMock)>>

FactorGivenOneVarInf == <<JsonGroup(<<1, 2, 3>>)>>

FactorGivenAllInfVars == <<JsonGroup(<<0, 2>>)>>

FactorGivenDuplicateLabels == <<JsonGroup(<<0, 1, 2, 3>>)>>

TestFeatures ==
  {PairwiseFeature, FactorGivenOneVarInf, FactorGivenAllInfVars, FactorGivenDuplicateLabels}

\* training_data_sample and data_sample of the test on the features.
TrainingDataSample(features) ==
  IF features = FactorGivenDuplicateLabels
  THEN JsonQuery(features, TestAssign(StrSplit, StrSplit, StrSplit))
  ELSE JsonQuery(features, TestAssign(StrBase, StrASTNode, StrProps))

DataSample(features) ==
  IF features = FactorGivenDuplicateLabels
  THEN JsonQuery(features, TestAssign(StrA, StrSplit, StrB))
  ELSE JsonQuery(features, TestAssign(StrA, StrASTNode, StrB))

\* The record as the Query proto whose node indices are the values v.
ProtoFeature(item) ==
  IF item.kind = "f2" THEN BinaryRelation(item.a, item.b, item.f2)
  ELSE IF item.kind = "cn" THEN Constraint(item.n)
  ELSE FactorVariables(item.group)

ProtoQuery(json_query) ==
  Query([i \in 1..Len(json_query.query) |-> ProtoFeature(json_query.query[i])],
        [i \in 1..Len(json_query.assign) |->
           NodeAssignment(json_query.assign[i].v, json_query.assign[i].label,
                          json_query.assign[i].key = "giv")])

\* The adapter of a test after SetUpUnitUnderTest, and the two protos the
\* test obtains from it.
AdapterAfterTraining(features) ==
  JsonToQuery(JsonValueNumbererNew, TrainingDataSample(features)).numberer

AdaptedTrainingSample(features) ==
  JsonToQuery(JsonValueNumbererNew, TrainingDataSample(features)).query

AdaptedDataSample(features) ==
  JsonToQuery(AdapterAfterTraining(features), DataSample(features)).query

TestInputs ==
  {<<ProtoQuery(TrainingDataSample(fs))>> : fs \in TestFeatures}
    \cup {<<AdaptedTrainingSample(fs)>> : fs \in TestFeatures}

TestRequests ==
  {ProtoQuery(DataSample(fs)) : fs \in TestFeatures}
    \cup {AdaptedDataSample(fs) : fs \in TestFeatures}

\* Two arcs between the nodes a and b, and three arcs from the nodes split
\* and step to a given node.
SamplePair ==
  Query(<<BinaryRelation(0, 1, StrR), BinaryRelation(0, 1, StrS)>>,
        <<NodeAssignment(0, StrA, FALSE), NodeAssignment(1, StrB, FALSE)>>)

SampleStar ==
  Query(<<BinaryRelation(0, 2, StrMock), BinaryRelation(0, 2, StrBase),
          BinaryRelation(1, 2, StrMock)>>,
        <<NodeAssignment(0, StrSplit, FALSE), NodeAssignment(1, StrStep, FALSE),
          NodeAssignment(2, StrX, TRUE)>>)

TrainingInputs ==
  {<<SampleAA, SampleCB>>, <<SampleFactor>>, <<SampleAA, SampleAA, SampleCB>>,
   <<SamplePair, SampleStar>>} \cup TestInputs

\* Requests.
RequestScope == Query(<<BinaryRelation(0, 1, StrR), Constraint(<<0, 1>>)>>,
                      <<NodeAssignment(0, StrB, FALSE), NodeAssignment(1, StrA, FALSE)>>)

RequestInferB == Query(<<BinaryRelation(0, 1, StrR)>>,
                       <<NodeAssignment(0, StrS, FALSE), NodeAssignment(1, StrB, FALSE)>>)

RequestFactor ==
  Query(<<BinaryRelation(0, 2, StrR), FactorVariables(<<0, 1>>)>>,
        <<NodeAssignment(0, StrS, FALSE), NodeAssignment(1, StrS, FALSE),
          NodeAssignment(2, StrX, TRUE)>>)

RequestGivenS == Query(<<BinaryRelation(0, 1, StrR)>>,
                       <<NodeAssignment(0, StrA, FALSE), NodeAssignment(1, StrS, TRUE)>>)

\* The relation s of the arc 0 -> 3 is in no training sample; node 7 is
\* beyond every node a feature names.
RequestUnknownArc ==
  Query(<<BinaryRelation(0, 1, StrR), BinaryRelation(0, 3, StrS)>>,
        <<NodeAssignment(7, StrC, FALSE), NodeAssignment(0, StrS, FALSE),
          NodeAssignment(1, StrB, FALSE), NodeAssignment(3, StrA, TRUE)>>)

\* The arcs of SamplePair and of SampleStar, the labels of SampleStar.
RequestPairStar ==
  Query(<<BinaryRelation(0, 1, StrR), BinaryRelation(0, 1, StrS),
          BinaryRelation(0, 2, StrMock), BinaryRelation(0, 2, StrBase),
          BinaryRelation(1, 2, StrMock)>>,
        <<NodeAssignment(0, StrSplit, FALSE), NodeAssignment(1, StrStep, FALSE),
          NodeAssignment(2, StrX, TRUE)>>)

Requests ==
  {RequestScope, RequestInferB, RequestFactor, RequestGivenS, RequestUnknownArc,
   RequestPairStar}
    \cup TestRequests

\* The number of times the same request is served.
MaxRuns == 2

\* The draws a random generator hands to std::random_shuffle.
MaxDraws == 2

Shuffles == [1..MaxDraws -> 0..1]

NoRequest == Query(<<>>, <<>>)

Idle == [pc |-> "idle"]

(***************************************************************************)
(* Training set-up and serving                                             *)
(***************************************************************************)
servingVars == <<request, query, start, opt, runs>>

trainingVars == <<train, threads, log>>

fileVars == <<files, loaded>>

unitVars == <<unit, calls>>

NoTraining == [pc |-> "none"]

NoLog ==
  [start |-> <<>>, arcs |-> <<>>, factors |-> <<>>, accepted |-> <<>>, reverts |-> 0,
   initialized |-> 0, processed |-> <<>>, passes |-> 0]

NoFiles == [features |-> <<>>, strings |-> <<>>, lfreq |-> <<>>]

NoUnit == [kind |-> "none"]

\* The process starts: flags are parsed, the engine is constructed.
InitInference ==
  /\ FLAGS \in InferenceFlags
  /\ input \in TrainingInputs
  /\ inference = GraphInferenceNew
  /\ phase = "InitTrain"
  /\ count = 0
  /\ request = NoRequest
  /\ query = <<>>
  /\ start = <<>>
  /\ opt = Idle
  /\ runs = <<>>
  /\ train = NoTraining
  /\ threads = <<>>
  /\ log = NoLog
  /\ files = NoFiles
  /\ loaded = GraphInferenceNew
  /\ unit = NoUnit
  /\ calls = <<>>

\* InitTrain: one sample is added to the model.
InitTrainAddQuery ==
  /\ phase = "InitTrain"
  /\ count < Len(input)
  /\ inference' = AddQueryToModel(inference, input[count + 1])
  /\ count' = count + 1
  /\ UNCHANGED <<FLAGS, input, phase>>
  /\ UNCHANGED servingVars
  /\ UNCHANGED <<trainingVars, fileVars, unitVars>>

\* InitTrain: all samples are in, the candidate index is built.
InitTrainPrepare ==
  /\ phase = "InitTrain"
  /\ count = Len(input)
  /\ inference' = PrepareForInference(inference)
  /\ phase' = "ready"
  /\ UNCHANGED <<FLAGS, input, count>>
  /\ UNCHANGED servingVars
  /\ UNCHANGED <<trainingVars, fileVars, unitVars>>

\* TrainSSVM before its first pass.
TrainSSVMInit ==
  /\ phase = "ready"
  /\ inference' = SSVMInit(InitializeFeatureWeights(inference, FLAGS.regularization_const),
                           FLAGS.svm_margin)
  /\ phase' = "TrainSSVM"
  /\ UNCHANGED <<FLAGS, input, count>>
  /\ UNCHANGED servingVars
  /\ UNCHANGED <<trainingVars, fileVars, unitVars>>

\* Query and assignment are built from the proto r; the optimization of the
\* assignment begins (loss-augmented when penalty is TRUE).
BeginOptimization(r, penalty) ==
  LET Begin(q, a) ==
        /\ request' = r
        /\ query' = QueryWithLabels(q, inference, r.node_assignments)
        /\ start' = a
        /\ opt' = OptimizationStart(a)
        /\ runs' = <<>>
      Penalized(a) == IF penalty THEN SetUpEqualityPenalty(a, inference.svm_margin_) ELSE a
      Assign(q) == Begin(q, Penalized(FromNodeAssignmentsProto(q, inference, r.node_assignments)))
  IN Assign(FromFeaturesQueryProto(GraphQueryNew(inference), inference, r.features))

\* A client asks for the labels of a query: MapInference is called.
CallMapInference ==
  /\ phase = "ready"
  /\ \E r \in Requests : BeginOptimization(r, FALSE)
  /\ phase' = "MapInference"
  /\ UNCHANGED <<FLAGS, input, inference, count>>
  /\ UNCHANGED <<trainingVars, fileVars, unitVars>>

\* SSVMLearn is called on a training sample; it optimizes with the margin.
CallSSVMLearn ==
  /\ phase = "TrainSSVM"
  /\ \E i \in 1..Len(input) : BeginOptimization(input[i], TRUE)
  /\ phase' = "SSVMLearn"
  /\ UNCHANGED <<FLAGS, input, inference, count>>
  /\ UNCHANGED <<trainingVars, fileVars, unitVars>>

Optimizing == phase \in {"MapInference", "SSVMLearn"}

\* PerformAssignmentOptimization moves from the statement pc to the frame next.
OptimizationAt(pc, next) ==
  /\ Optimizing
  /\ opt.pc = pc
  /\ opt' = next
  /\ UNCHANGED <<FLAGS, input, inference, phase, count, request, query, start, runs>>
  /\ UNCHANGED <<trainingVars, fileVars, unitVars>>

ReplaceUnknown == OptimizationAt("replace", StepReplace(opt, query, inference))

GreedyPass == OptimizationAt("greedy", StepGreedy(opt, query, inference))

LoopyBPPass == OptimizationAt("bp", StepLoopyBP(opt, query, inference))

PerNodePass == OptimizationAt("node", StepPerNode(opt, query, inference))

PerArcPass == OptimizationAt("arc", StepPerArc(opt, query, inference))

\* The values a read through the erased iterator may yield: a label of the
\* assignment or anything else.
DanglingReads == {-1} \cup {LabelOf(opt.a, n) : n \in Nodes(opt.a)}

PerFactorPass ==
  /\ Optimizing
  /\ opt.pc = "factor"
  /\ \E sh \in Shuffles, d \in DanglingReads :
        OptimizationAt("factor",
                       StepPerFactor(opt, query, inference, [shuffles |-> sh, dangling |-> d]))

EndOfPass == OptimizationAt("score", StepScore(opt, query, inference))

\* PerformAssignmentOptimization returns; the same request is served again
\* until it was served MaxRuns times.
Return ==
  /\ Optimizing
  /\ opt.pc = "done"
  /\ Len(runs) < MaxRuns
  /\ runs' = Append(runs, opt.a)
  /\ opt' = IF Len(runs) + 1 < MaxRuns THEN OptimizationStart(start) ELSE Idle
  /\ UNCHANGED <<FLAGS, input, inference, phase, count, request, query, start>>
  /\ UNCHANGED <<trainingVars, fileVars, unitVars>>

NextInference ==
  \/ InitTrainAddQuery
  \/ InitTrainPrepare
  \/ TrainSSVMInit
  \/ CallMapInference
  \/ CallSSVMLearn
  \/ ReplaceUnknown
  \/ GreedyPass
  \/ LoopyBPPass
  \/ PerNodePass
  \/ PerArcPass
  \/ PerFactorPass
  \/ EndOfPass
  \/ Return

SpecInference == InitInference /\ [][NextInference]_vars

(***************************************************************************)
(* Properties of MAP inference                                             *)
(***************************************************************************)
IsGiven(n) == ~start.assignments_[n].must_infer

\* Another node of a scope of n carries the label of n.
SharesLabelInScope(a, q, n) == ConflictingNodes(a, q, n) # {}

\* PerformAssignmentOptimization has been called and has not yet returned.
InCall == Optimizing /\ opt.pc # "idle"

\* C1 as stated: from the call of MapInference or of the inference inside
\* SSVMLearn until its return, every given node carries the label the caller
\* supplied, whether or not an unknown label is configured.
C1_GivenLabelsKept ==
  InCall => \A n \in Nodes(start) : IsGiven(n) => LabelOf(opt.a, n) = LabelOf(start, n)

\* C1: from the call until the return, every given node carries the label
\* the caller supplied, except that, when an unknown label is configured, a
\* given node whose supplied label is not in label_frequency_ carries the
\* unknown label from the first step of the engine on.
C1_GivenLabelsKeptOrUnknown ==
  InCall =>
    \A n \in Nodes(start) :
      IsGiven(n) =>
        LabelOf(opt.a, n) =
          IF /\ opt.pc # "replace"
             /\ inference.unknown_label_ >= 0
             /\ LabelOf(start, n) \notin DOMAIN inference.label_frequency_
          THEN inference.unknown_label_
          ELSE LabelOf(start, n)

\* The call is about to return, an infer node was relabelled, and a given
\* node whose label the model does not know carries the unknown label.
C1_Witness ==
  /\ InCall
  /\ opt.pc = "done"
  /\ \E m \in Nodes(start) : ~IsGiven(m) /\ LabelOf(opt.a, m) # LabelOf(start, m)
  /\ \E n \in Nodes(start) :
       /\ IsGiven(n)
       /\ LabelOf(start, n) \notin DOMAIN inference.label_frequency_
       /\ LabelOf(opt.a, n) = inference.unknown_label_
       /\ LabelOf(opt.a, n) # LabelOf(start, n)

\* C2: after each completed pass of MapInference, every infer node either
\* has no other node of one of its scopes carrying its label, or still
\* carries the label it had when MapInference was called.
C2_ScopeSoundness ==
  (phase = "MapInference" /\ opt.pc # "idle" /\ opt.completed # "none") =>
    \A n \in Nodes(start) :
      ~IsGiven(n) =>
        \/ ~SharesLabelInScope(opt.a, query, n)
        \/ LabelOf(opt.a, n) = LabelOf(start, n)

\* Every infer node starts with a label the validator accepts.
StartLabelsValid ==
  \A n \in Nodes(start) :
    ~IsGiven(n) => IsLabelIdValid(query.label_set_, inference, LabelOf(start, n))

\* C3: if the validator accepts the starting label of every infer node, then
\* at the return of MapInference no infer node carries a label it rejects.
C3_ValidatorSoundness ==
  (phase = "MapInference" /\ opt.pc = "done" /\ StartLabelsValid) =>
    \A n \in Nodes(start) :
      ~IsGiven(n) => IsLabelIdValid(query.label_set_, inference, LabelOf(opt.a, n))

\* The labels an assignment gives to the nodes.
LabelsOf(a) == [n \in Nodes(a) |-> LabelOf(a, n)]

\* permutations_beam_size >= k! for every factor of the query.
BeamCoversFactors ==
  \A i \in 1..Len(query.factors_) :
     ~TooManyPermutations(CalculateFactorial(Len(query.factors_[i])),
                          U64FromNat(FLAGS.permutations_beam_size))

\* C10: with permutations_beam_size >= k! for every factor of the query, the
\* MapInference runs on the same model, query and initial assignment end
\* with the same label at every node.
C10_DeterministicInference ==
  (phase = "MapInference" /\ BeamCoversFactors) =>
    \A i, j \in 1..Len(runs) : LabelsOf(runs[i]) = LabelsOf(runs[j])

\* Two runs on a query with a factor returned, and the per-factor pass chose
\* an arrangement that is not the first one in label order.
C10_Witness ==
  /\ phase = "MapInference"
  /\ Len(runs) >= 2
  /\ query.factors_ # <<>>
  /\ BeamCoversFactors
  /\ FLAGS.graph_per_node_passes = 0
  /\ \E n, m \in Nodes(start) :
       /\ n < m
       /\ ~IsGiven(n) /\ ~IsGiven(m)
       /\ LabelOf(runs[1], n) > LabelOf(runs[1], m)
       /\ LabelOf(runs[1], n) # LabelOf(start, n)

(***************************************************************************)
(* The factor hash on its own: a factor is hashed with its labels in       *)
(* several orders.                                                         *)
(***************************************************************************)
\* The values of the variables that an object checked on its own leaves alone.
Standalone ==
  /\ FLAGS = DefaultFlags
  /\ input = <<>>
  /\ inference = GraphInferenceNew
  /\ count = 0
  /\ request = NoRequest
  /\ query = <<>>
  /\ start = <<>>
  /\ opt = Idle
  /\ runs = <<>>
  /\ train = NoTraining
  /\ threads = <<>>
  /\ log = NoLog
  /\ files = NoFiles
  /\ loaded = GraphInferenceNew

standaloneVars ==
  <<FLAGS, input, inference, phase, count, servingVars, trainingVars, fileVars>>

\* The largest factor hashed.
MaxFactorSize == 3

\* The number of orders in which one factor is hashed.
MaxOrders == 2

\* Label ids: none (-1), small ids and the largest id.
HashLabels == {-1, 0, 1, 7, MaxLabelId}

InitHash ==
  /\ Standalone
  /\ phase = "FactorHash"
  /\ unit \in [kind : {"factor"},
               labels : UNION {[1..n -> HashLabels] : n \in 1..MaxFactorSize}]
  /\ calls = <<>>

\* The labels of the factor are hashed in one order of its variables.
HashFactor ==
  /\ phase = "FactorHash"
  /\ Len(calls) < MaxOrders
  /\ \E order \in Range(Arrangements(unit.labels)) :
       calls' = Append(calls, [order |-> order, hash |-> FactorHash(order)])
  /\ UNCHANGED <<unit, standaloneVars>>

NextHash == HashFactor

SpecHash == InitHash /\ [][NextHash]_vars

\* C11: the factor hash depends only on the multiset of label ids: the
\* 64-bit sums of HashInt over two orderings of the same labels are equal.
C11_FactorHashOrderIndependent ==
  phase = "FactorHash" => \A i, j \in 1..Len(calls) : calls[i].hash = calls[j].hash

\* A factor of three different labels was hashed in two different orders,
\* and the sum of the label hashes exceeds 2^64.
C11_Witness ==
  /\ phase = "FactorHash"
  /\ Len(calls) = 2
  /\ calls[1].order # calls[2].order
  /\ Cardinality(Range(unit.labels)) = 3
  /\ SumSeq([i \in 1..Len(unit.labels) |-> HashIntTable[unit.labels[i]][8]]) >= 256
  /\ calls[1].hash = calls[2].hash

(***************************************************************************)
(* Properties of query and assignment construction                         *)
(***************************************************************************)
\* The relation of an arc is in the dictionary of the model.
KnownRelation(f) ==
  f.kind = "binary_relation" => findString(inference.strings_, f.relation) >= 0

\* The query built from the features of the request whose relation is known.
RemainingQuery ==
  FromFeaturesQueryProto(GraphQueryNew(inference), inference,
                         SelectSeq(request.features, KnownRelation))

\* The node index of an assignment is one of the nodes of the remaining features.
InBounds(assignment) == assignment.node_index \in DOMAIN RemainingQuery.arcs_adjacent_to_node_

RemainingAssignments == SelectSeq(request.node_assignments, InBounds)

\* The request holds an arc of unknown relation and an assignment out of bounds.
HasBadInput ==
  /\ \E i \in 1..Len(request.features) : ~KnownRelation(request.features[i])
  /\ \E i \in 1..Len(request.node_assignments) : ~InBounds(request.node_assignments[i])

\* C13: the query and the assignment built from a request are those built
\* from the request without its arcs of unknown relation and without its
\* node assignments that are out of bounds: the same adjacency, scopes,
\* factors and labels.
C13_BadInputDropped ==
  (phase = "MapInference" /\ opt.pc # "idle") =>
    /\ query.arcs_ = RemainingQuery.arcs_
    /\ query.arcs_adjacent_to_node_ = RemainingQuery.arcs_adjacent_to_node_
    /\ query.scopes_per_nodes_ = RemainingQuery.scopes_per_nodes_
    /\ query.factors_ = RemainingQuery.factors_
    /\ query.factors_of_a_node_ = RemainingQuery.factors_of_a_node_
    /\ LabelsOf(start) =
         LabelsOf(FromNodeAssignmentsProto(RemainingQuery, inference, RemainingAssignments))

(***************************************************************************)
(* The label validator on its own: a rules file is loaded against a        *)
(* dictionary, then the validity of interned labels is asked for.          *)
(***************************************************************************)
\* The label of n characters 'a'.
LongLabel(n) == [i \in 1..n |-> 97]

\* The lines a rules file is made of: "+.*", "-.*", "+a*", "-a*", "-a", "+a",
\* the literal rules that allow and disallow the label of 101 characters,
\* and a comment.
RuleLines ==
  {<<43, 46, 42>>, <<45, 46, 42>>, <<43, 97, 42>>, <<45, 97, 42>>, <<45, 97>>, <<43, 97>>,
   <<43>> \o LongLabel(MaxRegexLabelLen + 1), <<45>> \o LongLabel(MaxRegexLabelLen + 1),
   <<35, 120>>}

\* The number of lines of a rules file.
MaxRuleLines == 3

\* The number of labels whose validity is asked for.
MaxChecks == 2

RECURSIVE Interned(_, _, _)
Interned(ss, strings, i) ==
  IF i > Len(strings) THEN ss ELSE Interned(addStringSet(ss, strings[i]), strings, i + 1)

\* The dictionaries: labels of 1, 2, 100 and 101 characters.
Dictionaries ==
  {Interned(EmptyStringSet, <<StrA, LongLabel(MaxRegexLabelLen + 1)>>, 1),
   Interned(EmptyStringSet, <<LongLabel(MaxRegexLabelLen + 1), StrB, LongLabel(MaxRegexLabelLen)>>, 1),
   Interned(EmptyStringSet, <<StrA \o StrB, StrA>>, 1)}

InitLabelChecker ==
  /\ Standalone
  /\ phase = "LabelChecker"
  /\ unit \in [kind : {"LabelChecker"}, ss : Dictionaries,
               lines : UNION {[1..n -> RuleLines] : n \in 1..MaxRuleLines},
               checker : {EmptyLabelChecker}]
  /\ calls = <<>>

\* LabelChecker::Load on the rules file and the dictionary.
LoadValidLabels ==
  /\ phase = "LabelChecker"
  /\ ~unit.checker.is_loaded_
  /\ unit' = [unit EXCEPT !.checker = LabelCheckerLoad(@, unit.lines, unit.ss)]
  /\ UNCHANGED <<calls, standaloneVars>>

\* IsLabelValid is asked for an interned label.
CheckLabel ==
  /\ phase = "LabelChecker"
  /\ unit.checker.is_loaded_
  /\ Len(calls) < MaxChecks
  /\ \E label \in Range(getAllStrings(unit.ss)) :
       calls' = Append(calls, [label |-> label, name |-> getString(unit.ss, label),
                               valid |-> IsLabelValid(unit.checker, label)])
  /\ UNCHANGED <<unit, standaloneVars>>

NextLabelChecker == LoadValidLabels \/ CheckLabel

SpecLabelChecker == InitLabelChecker /\ [][NextLabelChecker]_vars

\* The rule matches the label: a regex rule by std::regex_match, a literal
\* rule by equality.
RuleMatches(rule, name) ==
  IF IsRegEx(rule.re_str_) THEN RegexMatch(rule.re_str_, name) ELSE rule.re_str_ = name

\* The sign of the last rule for which Hit holds, FALSE when there is none.
SignOfLast(rules, Hit(_), Sign(_)) ==
  LET hits == {r \in 1..Len(rules) : Hit(rules[r])}
  IN hits # {} /\ Sign(rules[CHOOSE r \in hits : \A h \in hits : h <= r])

\* C14 as stated: is_valid(id) is the sign of the last rule in file order
\* that matches the label, false when no rule matches it, for labels of
\* any length.
C14_LastMatchingRule ==
  phase = "LabelChecker" =>
    \A i \in 1..Len(calls) :
      calls[i].valid =
        SignOfLast(unit.checker.rules_, LAMBDA rule : RuleMatches(rule, calls[i].name),
                   LAMBDA rule : rule.valid_)

\* C14: is_valid(id) is the sign of the last rule in file order that
\* matches the label, false when no rule matches it, where for a label
\* longer than 100 bytes every regex rule counts as a matching disallow rule.
C14_LastMatchingRuleUpTo100 ==
  phase = "LabelChecker" =>
    \A i \in 1..Len(calls) :
      LET long == Len(calls[i].name) > MaxRegexLabelLen
      IN calls[i].valid =
           SignOfLast(unit.checker.rules_,
                      LAMBDA rule : (long /\ IsRegEx(rule.re_str_))
                                    \/ RuleMatches(rule, calls[i].name),
                      LAMBDA rule : rule.valid_ /\ ~(long /\ IsRegEx(rule.re_str_)))

\* A label of 100 characters was found valid by an allow rule that follows a
\* disallow rule matching it, and a label that no rule matches was found invalid.
C14_Witness ==
  /\ phase = "LabelChecker"
  /\ Len(calls) = 2
  /\ Len(calls[1].name) = MaxRegexLabelLen
  /\ calls[1].valid
  /\ \E r, t \in 1..Len(unit.checker.rules_) :
       /\ r < t
       /\ ~unit.checker.rules_[r].valid_ /\ RuleMatches(unit.checker.rules_[r], calls[1].name)
       /\ unit.checker.rules_[t].valid_ /\ RuleMatches(unit.checker.rules_[t], calls[1].name)
  /\ ~calls[2].valid
  /\ \A r \in 1..Len(unit.checker.rules_) : ~RuleMatches(unit.checker.rules_[r], calls[2].name)

\* The rule is a regex rule or a literal rule that names the label.
RuleTouches(rule, name) == IsRegEx(rule.re_str_) \/ rule.re_str_ = name

\* C15 as stated: every interned label longer than 100 bytes is invalid
\* after the rules were applied, whatever the rules.
C15_LongLabelsInvalid ==
  phase = "LabelChecker" =>
    \A i \in 1..Len(calls) : Len(calls[i].name) > MaxRegexLabelLen => ~calls[i].valid

\* C15: every interned label longer than 100 bytes is invalid after the
\* rules were applied, unless the last rule in file order that is a regex
\* rule or a literal rule naming the label is a literal allow rule.
C15_LongLabelsInvalidUnlessNamed ==
  phase = "LabelChecker" =>
    \A i \in 1..Len(calls) :
      (/\ Len(calls[i].name) > MaxRegexLabelLen
       /\ ~SignOfLast(unit.checker.rules_, LAMBDA rule : RuleTouches(rule, calls[i].name),
                      LAMBDA rule : rule.valid_ /\ ~IsRegEx(rule.re_str_)))
        => ~calls[i].valid

\* A label of 101 characters was found invalid although the last rule of
\* the file is an allow regex that matches it and a literal rule allows it.
C15_Witness ==
  /\ phase = "LabelChecker"
  /\ Len(calls) >= 1
  /\ Len(calls[1].name) > MaxRegexLabelLen
  /\ ~calls[1].valid
  /\ Len(unit.checker.rules_) = 3
  /\ unit.checker.rules_[1].valid_ /\ unit.checker.rules_[1].re_str_ = calls[1].name
  /\ unit.checker.rules_[3].valid_
  /\ IsRegEx(unit.checker.rules_[3].re_str_)
  /\ RegexMatch(unit.checker.rules_[3].re_str_, calls[1].name)

(***************************************************************************)
(* The string dictionary on its own: strings are added, looked up and      *)
(* read back.                                                              *)
(***************************************************************************)
\* The strings "", "a", "b" and "ab".
DictionaryStrings == {<<>>, StrA, StrB, StrA \o StrB}

\* The number of calls made on one dictionary.
MaxCalls == 4

InitStringSet ==
  /\ Standalone
  /\ phase = "StringSet"
  /\ unit = [kind |-> "StringSet", ss |-> EmptyStringSet]
  /\ calls = <<>>

\* addString(s)
AddString ==
  /\ phase = "StringSet"
  /\ Len(calls) < MaxCalls
  /\ \E s \in DictionaryStrings :
       /\ unit' = [unit EXCEPT !.ss = addStringSet(@, s)]
       /\ calls' = Append(calls, [op |-> "add", s |-> s, id |-> addStringId(unit.ss, s),
                                  size |-> Len(unit'.ss.m_hashes)])
  /\ UNCHANGED standaloneVars

\* findString(s)
FindString ==
  /\ phase = "StringSet"
  /\ Len(calls) < MaxCalls
  /\ \E s \in DictionaryStrings :
       calls' = Append(calls, [op |-> "find", s |-> s, id |-> findString(unit.ss, s),
                               size |-> Len(unit.ss.m_hashes)])
  /\ UNCHANGED <<unit, standaloneVars>>

\* getString(id) for an id that addString returned.
GetString ==
  /\ phase = "StringSet"
  /\ Len(calls) < MaxCalls
  /\ \E i \in 1..Len(calls) :
       /\ calls[i].op = "add"
       /\ calls' = Append(calls, [op |-> "get", s |-> getString(unit.ss, calls[i].id),
                                  id |-> calls[i].id, size |-> Len(unit.ss.m_hashes)])
  /\ UNCHANGED <<unit, standaloneVars>>

NextStringSet == AddString \/ FindString \/ GetString

SpecStringSet == InitStringSet /\ [][NextStringSet]_vars

\* The calls of addString before call i.
AddsBefore(i) == {j \in 1..(i - 1) : calls[j].op = "add"}

\* C16: add(s) returns the same id on every call with the same s, different
\* strings never receive the same id, find(s) returns that id if and only if
\* s was added before (and says absent otherwise), and get(id) returns s,
\* also after the hash index has grown.
C16_DictionaryConsistent ==
  phase = "StringSet" =>
    \A i \in 1..Len(calls) :
      /\ calls[i].op = "add" =>
           /\ calls[i].id >= 0
           /\ \A j \in AddsBefore(i) : (calls[j].id = calls[i].id) <=> (calls[j].s = calls[i].s)
      /\ calls[i].op = "find" =>
           /\ \A j \in AddsBefore(i) : calls[j].s = calls[i].s => calls[i].id = calls[j].id
           /\ (\A j \in AddsBefore(i) : calls[j].s # calls[i].s) => calls[i].id = -1
      /\ calls[i].op = "get" =>
           \A j \in AddsBefore(i) : calls[j].id = calls[i].id => calls[i].s = calls[j].s

\* Three different strings were added, the third add grew the hash index
\* and re-indexed the first two, and the string added first was then found
\* under its id.
C16_Witness ==
  /\ phase = "StringSet"
  /\ Len(calls) = 4
  /\ \A i \in 1..3 : calls[i].op = "add"
  /\ Cardinality({calls[i].s : i \in 1..3}) = 3
  /\ calls[2].size < calls[3].size
  /\ calls[4].op = "find"
  /\ calls[4].s = calls[1].s
  /\ calls[4].id = calls[1].id
  /\ getString(unit.ss, calls[2].id) = calls[2].s

(***************************************************************************)
(* The scenarios of the tests of MapInference                              *)
(***************************************************************************)
\* MapInference has returned its answer to the request.
Answered == phase = "MapInference" /\ opt.pc = "done"

\* The model was built from the record of the test on the features and the
\* request is the test's data sample, both with the node indices of the record.
TestRun(features) ==
  /\ input = <<ProtoQuery(TrainingDataSample(features))>>
  /\ request = ProtoQuery(DataSample(features))

\* The label the InferResponse carries for the node.
FinalLabel(node) ==
  LET response == FillInferResponse(opt.a, query, inference)
      at == {i \in 1..Len(response) : response[i].node_index = node}
  IN IF at = {} THEN <<>> ELSE response[CHOOSE i \in at : TRUE].label

\* C17 as stated: in scenario S1 (one arc of type mock from infer node 0 to
\* given node 3, further nodes 1, 2 and 4; inference started with a at node 0
\* and b at node 2) MapInference ends with base at node 0 and props at node 2.
C17_PairwiseScenario ==
  (Answered /\ FLAGS = DefaultFlags /\ TestRun(PairwiseFeature))
    => FinalLabel(0) = StrBase /\ FinalLabel(2) = StrProps

\* The assignment a Query proto makes to a node: the last one that names it.
ProtoAssignment(q, node) ==
  LET at == {i \in 1..Len(q.node_assignments) : q.node_assignments[i].node_index = node}
  IN q.node_assignments[CHOOSE i \in at : \A j \in at : j <= i]

\* The model was built from one query whose only feature is a group factor,
\* and the request is the same query: the same feature, the same given labels.
SingleFactorRun ==
  /\ Len(input) = 1
  /\ Len(input[1].features) = 1
  /\ input[1].features[1].kind = "factor_variables"
  /\ request.features = input[1].features
  /\ \A n \in Range(request.features[1].nodes) :
        /\ ProtoAssignment(request, n).given = ProtoAssignment(input[1], n).given
        /\ ProtoAssignment(request, n).given
             => ProtoAssignment(request, n).label = ProtoAssignment(input[1], n).label

\* The infer nodes of the factor of the request.
RunInfNodes == Range(FactorInfNodes(start, query.factors_[1]))

\* No infer node of the factor starts from a label of the dictionary.
StartsUnseen == \A n \in RunInfNodes : LabelOf(start, n) >= query.label_set_.ss_size_

\* The given labels leave one way to complete the learned factor.
OneCompletion ==
  \/ Cardinality(RunInfNodes) = 1
  \/ \A m, n \in RunInfNodes : ProtoAssignment(input[1], m).label = ProtoAssignment(input[1], n).label

LearnedFactors(size) == {g \in inference.factors_set_ : Len(g) = size}

\* The factors of the query all of whose nodes are to be inferred.
AllInferFactors ==
  {fi \in 1..Len(query.factors_) : FactorGivLabels(start, query.factors_[fi]) = <<>>}

\* The multiset of the labels MapInference left at the nodes of the factor.
FinalFactor(factor) == MakeFactor([i \in 1..Len(factor) |-> LabelOf(opt.a, factor[i])])

ArcWeights(a) ==
  SumSeq([i \in 1..Len(query.arcs_) |->
            FeatureWeight(inference, <<LabelOf(a, query.arcs_[i][1]),
                                       LabelOf(a, query.arcs_[i][2]), query.arcs_[i][3]>>)])

FactorWeights(a) ==
  SumSeq([i \in 1..Len(query.factors_) |->
            FactorWeight(inference, FactorLabelsHash(a, query.factors_[i]))])

Penalties(a) == SumSeq([i \in 1..NumNodes(a) |-> GetNodePenalty(a, i - 1)])

\* C20 as stated: the total score of the labelling at hand is the sum of the
\* weights of all arcs plus the sum of the weights of all factors under the
\* current labels, minus the penalties of all nodes.
C20_TotalScore ==
  InCall =>
    GetTotalScore(opt.a, query, inference)
      = ArcWeights(opt.a) + FactorWeights(opt.a) - Penalties(opt.a)

(***************************************************************************)
(* Training: LearningMain, TrainPL, TrainSSVM and ParallelForeachInput     *)
(* (n2p/training/train_internal.h), GraphInference::SSVMLearn and PLLearn. *)
(* train is the activation of TrainPL or TrainSSVM, threads the threads of *)
(* ParallelForeachInput, each a record [pc, record, arcs, factors,         *)
(* expected]: arcs and factors are the weight updates its SSVMLearn or     *)
(* PLLearn call still has to make, expected the value it read last.  An    *)
(* error rate is the pair <<incorrect labels, all labels>>; 0 / 0 is NaN.  *)
(* The computation of the gradient inside a call is one step: it reads the *)
(* weights as they are when the step is taken.  Doubles are fixed-point    *)
(* numbers with WOne units to 1.0.                                         *)
(***************************************************************************)
\* The number of training threads, --num_threads.
MaxThreads == 2

\* The number of training passes, --num_training_passes.
MaxPasses == 2

\* --num_threads=2 --num_training_passes=2
TrainFlags == [DefaultFlags EXCEPT !.num_threads = MaxThreads, !.num_training_passes = MaxPasses]

\* --start_learning_rate=0.3 --stop_learning_rate=0.2
FastTrainFlags ==
  [TrainFlags EXCEPT !.start_learning_rate = (3 * WOne) \div 10,
                     !.stop_learning_rate = WOne \div 5]

\* --start_learning_rate=0.3 --stop_learning_rate=0.2 --num_training_passes=1
OnePassFlags == [FastTrainFlags EXCEPT !.num_training_passes = 1]

\* --nohogwild
SerialTrainFlags == [TrainFlags EXCEPT !.hogwild = FALSE]

\* --nohogwild --start_learning_rate=0.3 --stop_learning_rate=0.2
SerialFastTrainFlags == [FastTrainFlags EXCEPT !.hogwild = FALSE]

\* --nohogwild --start_learning_rate=0.3 --stop_learning_rate=0.1 with one
\* pass more
SerialLongTrainFlags ==
  [SerialFastTrainFlags EXCEPT !.stop_learning_rate = WOne \div 10,
                               !.num_training_passes = MaxPasses + 1]

\* --nohogwild --unknown_label=u --min_freq_known_label=2
SerialUnknownLabelFlags ==
  [SerialTrainFlags EXCEPT !.unknown_label = StrU, !.min_freq_known_label = 2]

\* --training_method=pl
PLFlags == [TrainFlags EXCEPT !.training_method = "pl"]

\* --training_method=pl --start_learning_rate=0.3 --stop_learning_rate=0.2
PLFastFlags == [FastTrainFlags EXCEPT !.training_method = "pl"]

\* --training_method=pl_ssvm --num_pass_change_training=1
PLSSVMFlags ==
  [TrainFlags EXCEPT !.training_method = "pl_ssvm", !.num_pass_change_training = 1]


SampleAX == Query(<<BinaryRelation(0, 1, StrR)>>,
                  <<NodeAssignment(0, StrA, FALSE), NodeAssignment(1, StrX, TRUE)>>)

SampleBX == Query(<<BinaryRelation(0, 1, StrR)>>,
                  <<NodeAssignment(0, StrB, FALSE), NodeAssignment(1, StrX, TRUE)>>)

SampleFactorAX ==
  Query(<<BinaryRelation(0, 1, StrR), FactorVariables(<<0, 1>>)>>,
        <<NodeAssignment(0, StrA, FALSE), NodeAssignment(1, StrX, TRUE)>>)

SampleFactorBX ==
  Query(<<BinaryRelation(0, 1, StrR), FactorVariables(<<0, 1>>)>>,
        <<NodeAssignment(0, StrB, FALSE), NodeAssignment(1, StrX, TRUE)>>)

SampleGiven == Query(<<BinaryRelation(0, 1, StrR)>>,
                     <<NodeAssignment(0, StrA, TRUE), NodeAssignment(1, StrX, TRUE)>>)

\* The training runs: the flags of the run and the records of --input.
TrainingRuns ==
  {<<TrainFlags, <<SampleAX, SampleBX>>>>,
   <<TrainFlags, <<SampleGiven>>>>,
   <<FastTrainFlags, <<SampleAX, SampleAX, SampleBX>>>>,
   <<OnePassFlags, <<SampleFactorAX, SampleFactorBX>>>>,
   <<SerialFastTrainFlags, <<SampleFactorAX, SampleFactorAX, SampleFactorBX>>>>,
   <<SerialLongTrainFlags, <<SampleFactorAX, SampleFactorAX, SampleFactorBX>>>>,
   <<SerialUnknownLabelFlags, <<SampleFactorAX, SampleFactorAX, SampleFactorBX>>>>,
   <<PLFlags, <<SampleGiven>>>>,
   <<PLFastFlags, <<SampleGiven>>>>,
   <<PLSSVMFlags, <<SampleAX, SampleBX>>>>}

PrecisionStatsNew == [correct_labels |-> 0, incorrect_labels |-> 0, num_known_predictions |-> 0]

\* The value 1.0 of last_error_rate.
ErrorRateOne == <<1, 1>>

\* error_rate > last_error_rate on doubles: false as soon as one of them is NaN.
ErrorRateGreater(error_rate, last_error_rate) ==
  /\ error_rate[2] # 0
  /\ last_error_rate[2] # 0
  /\ error_rate[1] * last_error_rate[2] > last_error_rate[1] * error_rate[2]

\* The locals of TrainPL and of TrainSSVM before the loop; recorded_cache_
\* holds the records ShuffledCacheInput cached when InitTrain read them.
TrainStart(num_training_passes, start_learning_rate) ==
  [pc |-> "pass", pass |-> 0, num_training_passes |-> num_training_passes,
   start_learning_rate |-> start_learning_rate, learning_rate |-> start_learning_rate,
   last_error_rate |-> ErrorRateOne, backup_inference |-> <<>>, stats |-> PrecisionStatsNew,
   recorded_cache_ |-> input, reader |-> 0, reverted |-> FALSE]

\* The threads that run ForeachInput.
NumThreads == IF FLAGS.hogwild THEN FLAGS.num_threads ELSE 1

\* before and augmented are history: the weights SSVMLearn found and the
\* assignment its optimization returned, kept until the call returns.
ThreadNew ==
  [pc |-> "run", record |-> 0, arcs |-> <<>>, factors |-> <<>>, expected |-> 0,
   before |-> <<>>, augmented |-> <<>>]

\* What std::random_shuffle can leave in the cache.
Shuffled(cache) == {[i \in DOMAIN cache |-> cache[p[i]]] : p \in Permutations(DOMAIN cache)}

\* The weights of the model.
Weights(eng) == [features_ |-> eng.features_, factor_features_ |-> eng.factor_features_]

\* GraphInference backup_inference(*inference)
CopyInference(eng) == eng

\* *inference = backup_inference
RevertArcWeightsOnly(eng, backup_inference) ==
  [backup_inference EXCEPT !.factor_features_ = eng.factor_features_]

AssignInference(eng, backup_inference) == backup_inference

\* An update that writes the counts of the query over the counters.
UpdateStatsOverwrites(eng, assignment, new_assignment, stats) ==
  LET inferred == {n \in DOMAIN new_assignment.assignments_ :
                     new_assignment.assignments_[n].must_infer}
      known == {n \in inferred : LabelOf(new_assignment, n) # eng.unknown_label_}
      correct == {n \in known : LabelOf(new_assignment, n) = LabelOf(assignment, n)}
  IN [correct_labels |-> Cardinality(correct),
      incorrect_labels |-> Cardinality(inferred \ correct),
      num_known_predictions |-> Cardinality(known)]

UpdateStats(eng, assignment, new_assignment, stats) ==
  LET inferred == {n \in DOMAIN new_assignment.assignments_ :
                     new_assignment.assignments_[n].must_infer}
      known == {n \in inferred : LabelOf(new_assignment, n) # eng.unknown_label_}
      correct == {n \in known : LabelOf(new_assignment, n) = LabelOf(assignment, n)}
  IN [correct_labels |-> stats.correct_labels + Cardinality(correct),
      incorrect_labels |-> stats.incorrect_labels + Cardinality(inferred \ correct),
      num_known_predictions |-> stats.num_known_predictions + Cardinality(known)]

\* (*affected)[key] += gradient_weight
AddGradient(affected, key, gradient_weight) ==
  MapPut(affected, key, FindWithDefault(affected, key, 0) + gradient_weight)

RECURSIVE GetAffectedFeatures(_, _, _, _, _)
GetAffectedFeatures(affected_features, a, q, gradient_weight, i) ==
  IF i > Len(q.arcs_) THEN affected_features
  ELSE GetAffectedFeatures(
         AddGradient(affected_features,
                     <<LabelOf(a, q.arcs_[i][1]), LabelOf(a, q.arcs_[i][2]), q.arcs_[i][3]>>,
                     gradient_weight),
         a, q, gradient_weight, i + 1)

RECURSIVE GetAffectedFactorFeatures(_, _, _, _, _)
GetAffectedFactorFeatures(affected_factor_features, a, q, gradient_weight, i) ==
  IF i > Len(q.factors_) THEN affected_factor_features
  ELSE GetAffectedFactorFeatures(
         AddGradient(affected_factor_features, FactorLabelsHash(a, q.factors_[i]),
                     gradient_weight),
         a, q, gradient_weight, i + 1)

UpdateLess(x, y) == LexLess(x[1], y[1])

\* The entries <<key, gradient>> of a gradient that pass the test
\* "< -1e-9 || > 1e-9" and whose key the find in weights finds (the keys of
\* the weights do not change while the threads run).
AffectedUpdates(affected, weights) ==
  SetToSeqBy({<<k, affected[k]>> : k \in {x \in DOMAIN affected :
                                            affected[x] # 0 /\ x \in DOMAIN weights}},
             UpdateLess)

\* An SSVMLearn whose gradient is that of the given assignment alone.
SSVMLearnReferenceOnly(eng, q, a, learning_rate, rnd) ==
  LET Gradient(new_assignment) ==
        [new_assignment |-> new_assignment,
         arcs |-> AffectedUpdates(GetAffectedFeatures(<<>>, a, q, learning_rate, 1),
                                  eng.features_),
         factors |-> AffectedUpdates(GetAffectedFactorFeatures(<<>>, a, q, learning_rate, 1),
                                     eng.factor_features_)]
  IN Gradient(PerformAssignmentOptimization(SetUpEqualityPenalty(a, eng.svm_margin_), q, eng, rnd))

\* SSVMLearn up to its two update loops: the assignment found and the
\* updates the loops will make.
SSVMLearnGradient(eng, q, a, learning_rate, rnd) ==
  LET Gradient(new_assignment) ==
        [new_assignment |-> new_assignment,
         arcs |-> AffectedUpdates(
                    GetAffectedFeatures(GetAffectedFeatures(<<>>, a, q, learning_rate, 1),
                                        new_assignment, q, -learning_rate, 1),
                    eng.features_),
         factors |-> AffectedUpdates(
                       GetAffectedFactorFeatures(
                         GetAffectedFactorFeatures(<<>>, a, q, learning_rate, 1),
                         new_assignment, q, -learning_rate, 1),
                       eng.factor_features_)]
  IN Gradient(PerformAssignmentOptimization(SetUpEqualityPenalty(a, eng.svm_margin_), q, eng, rnd))

\* exp(x): the Taylor series, summed until a term vanishes.
RECURSIVE ExpSeries(_, _, _, _)
ExpSeries(x, k, term, sum) ==
  IF term = 0 THEN sum
  ELSE ExpSeries(x, k + 1, (term * x) \div (k * WOne), sum + term)

Exp(x) == IF x >= 0 THEN ExpSeries(x, 1, WOne, 0)
          ELSE (WOne * WOne) \div ExpSeries(-x, 1, WOne, 0)

\* x * y and x / y on doubles.
Times(x, y) == IF x * y >= 0 THEN (x * y) \div WOne ELSE -((-(x * y)) \div WOne)

Over(x, y) == IF (x >= 0) = (y > 0) THEN (x * WOne) \div y ELSE -((-(x * WOne)) \div y)

RECURSIVE GetNeighboringAffectedFeatures(_, _, _, _, _, _, _)
GetNeighboringAffectedFeatures(affected_features, a, q, node, label, gradient_weight, i) ==
  IF i > Len(q.arcs_adjacent_to_node_[node]) THEN affected_features
  ELSE LET arc == q.arcs_adjacent_to_node_[node][i]
           L(n) == IF n = node THEN label ELSE LabelOf(a, n)
       IN GetNeighboringAffectedFeatures(
            AddGradient(affected_features, <<L(arc[1]), L(arc[2]), arc[3]>>, gradient_weight),
            a, q, node, label, gradient_weight, i + 1)

RECURSIVE GetFactorAffectedFeaturesOfNode(_, _, _, _, _, _, _)
GetFactorAffectedFeaturesOfNode(factor_affected_features, a, q, node, label, gradient_weight, i) ==
  IF i > Len(q.factors_of_a_node_[node]) THEN factor_affected_features
  ELSE LET f == q.factors_[q.factors_of_a_node_[node][i]]
           hash == U64Add(HashIntTable[label],
                          FactorLabelsHash(a, SelectSeq(f, LAMBDA v : v # node)))
       IN GetFactorAffectedFeaturesOfNode(
            AddGradient(factor_affected_features, hash, gradient_weight),
            a, q, node, label, gradient_weight, i + 1)

\* The loop of PLLearn over the candidates of the node: g is [arcs, factors].
RECURSIVE PLCandidates(_, _, _, _, _, _, _, _, _)
PLCandidates(g, eng, a, q, node, candidates, normalization_constant, learning_rate, c) ==
  IF c > Len(candidates) THEN g
  ELSE LET marginal_probability ==
             Over(Exp(GetNodeScoreGivenAssignmentToANode(a, q, eng, node, node, candidates[c])),
                  normalization_constant)
           Step(gradient_weight) ==
             [arcs |-> GetNeighboringAffectedFeatures(g.arcs, a, q, node, candidates[c],
                                                      gradient_weight, 1),
              factors |-> GetFactorAffectedFeaturesOfNode(g.factors, a, q, node, candidates[c],
                                                          gradient_weight, 1)]
       IN PLCandidates(Step(Times(-learning_rate, marginal_probability)), eng, a, q, node,
                       candidates, normalization_constant, learning_rate, c + 1)

\* The loop of PLLearn over the nodes.
RECURSIVE PLNodes(_, _, _, _, _, _)
PLNodes(g, eng, a, q, learning_rate, i) ==
  IF i >= NumNodes(a) THEN g
  ELSE IF ~a.assignments_[i].must_infer THEN PLNodes(g, eng, a, q, learning_rate, i + 1)
  ELSE LET Normalized(candidates) ==
             PLCandidates(g, eng, a, q, i, candidates,
                          - GetNodePenalty(a, i)
                            + SumSeq([c \in 1..Len(candidates) |->
                                        Exp(GetNodeScoreGivenAssignmentToANode(
                                              a, q, eng, i, i, candidates[c]))]),
                          learning_rate, 1)
       IN PLNodes(Normalized(Append(GetLabelCandidates(a, q, eng, i, eng.beam_size_),
                                    LabelOf(a, i))),
                  eng, a, q, learning_rate, i + 1)

\* PLLearn up to its two update loops: the updates the loops will make.
PLLearnGradient(eng, q, a, learning_rate) ==
  LET Gradient(g) ==
        [arcs |-> AffectedUpdates(
                    GetAffectedFeatures(g.arcs, a, q, eng.beam_size_ * learning_rate, 1),
                    eng.features_),
         factors |-> AffectedUpdates(
                       GetAffectedFactorFeatures(g.factors, a, q,
                                                 eng.beam_size_ * learning_rate, 1),
                       eng.factor_features_)]
  IN Gradient(PLNodes([arcs |-> <<>>, factors |-> <<>>], eng, a, q, learning_rate, 0))

\* The value atomicAddRegularized tries to store.
AddRegularized(expected, value_added, min, max) ==
  LET Regularize(desired) == IF desired > max THEN max ELSE desired
  IN Regularize(IF expected + value_added < min THEN min ELSE expected + value_added)

\* The statement a thread is at once the head of its update lists is done.
NextUpdate(th) ==
  [th EXCEPT !.pc = IF th.arcs # <<>> THEN "arc" ELSE IF th.factors # <<>> THEN "factor"
                    ELSE "ret"]

\* The updates of this pass so far, per weight, as a sorted sequence.
RECURSIVE LogUpdates(_, _, _)
LogUpdates(updates, added, i) ==
  IF i > Len(added) THEN updates
  ELSE LogUpdates(MapPut(updates, added[i][1],
                         SortWith(Append(FindWithDefault(updates, added[i][1], <<>>), added[i][2]),
                                  IntLess)),
                  added, i + 1)

Training == phase \in {"TrainPL", "TrainSSVM"} /\ train.pc = "foreach"

\* TrainPL has left its loop: after its last pass or by the break.
TrainPLReturned ==
  /\ phase = "TrainPL"
  /\ \/ train.pc = "done"
     \/ train.pc = "pass" /\ train.pass >= train.num_training_passes

\* LearningMain after InitTrain: TrainPL is called unless the training
\* method is ssvm.  TrainPL up to its loop.
TrainPLBegin ==
  /\ phase = "ready"
  /\ FLAGS.training_method \in {"pl", "pl_ssvm"}
  /\ inference' = PLInit(InitializeFeatureWeights(inference, FLAGS.regularization_const),
                         FLAGS.max_labels_z)
  /\ train' = TrainStart(IF FLAGS.training_method = "pl" THEN FLAGS.num_training_passes
                         ELSE FLAGS.num_pass_change_training,
                         FLAGS.start_learning_rate)
  /\ phase' = "TrainPL"
  /\ log' = [log EXCEPT !.initialized = @ + 1]
  /\ UNCHANGED <<FLAGS, input, count, threads>>
  /\ UNCHANGED servingVars
  /\ UNCHANGED <<fileVars, unitVars>>

\* TrainSSVM that initializes the weights whatever the training method is.
InitializeWhateverMethod(eng) == InitializeFeatureWeights(eng, FLAGS.regularization_const)

\* if (FLAGS_training_method.compare(PL_SSVM_TRAIN_NAME) != 0)
\*   inference->InitializeFeatureWeights(FLAGS_regularization_const);
InitializeUnlessCombined(eng) ==
  IF FLAGS.training_method # "pl_ssvm"
  THEN InitializeFeatureWeights(eng, FLAGS.regularization_const)
  ELSE eng

\* LearningMain calls TrainSSVM, after InitTrain when the training method is
\* ssvm, after TrainPL when it is pl_ssvm.  TrainSSVM up to its loop.
TrainSSVMBegin ==
  /\ \/ phase = "ready" /\ FLAGS.training_method = "ssvm"
     \/ TrainPLReturned /\ FLAGS.training_method = "pl_ssvm"
  /\ inference' = SSVMInit(InitializeUnlessCombined(inference), FLAGS.svm_margin)
  /\ train' = TrainStart(FLAGS.num_training_passes,
                         IF FLAGS.training_method = "ssvm" THEN FLAGS.start_learning_rate
                         ELSE FLAGS.initial_learning_rate_ssvm)
  /\ phase' = "TrainSSVM"
  /\ log' = [log EXCEPT !.initialized = IF FLAGS.training_method # "pl_ssvm" THEN @ + 1 ELSE @]
  /\ UNCHANGED <<FLAGS, input, count, threads>>
  /\ UNCHANGED servingVars
  /\ UNCHANGED <<fileVars, unitVars>>

\* learning_rate /= (pass + 1), the update of --learning_rate_update_formula_pl=prop_pass
PLLearningRate(learning_rate, pass) == learning_rate \div (pass + 1)

\* ParallelForeachInput starts its threads on a reader of the shuffled cache.
StartThreads(locals) ==
  /\ \E cache \in Shuffled(train.recorded_cache_) :
       train' = [locals EXCEPT !.pc = "foreach", !.recorded_cache_ = cache, !.reader = 0]
  /\ threads' = [t \in 1..NumThreads |-> ThreadNew]
  /\ log' = [log EXCEPT !.start = Weights(inference), !.arcs = <<>>, !.factors = <<>>,
                        !.passes = @ + 1,
                        !.processed = [pos \in 1..Len(train.recorded_cache_) |-> 0]]
  /\ UNCHANGED <<FLAGS, input, inference, phase, count>>
  /\ UNCHANGED servingVars
  /\ UNCHANGED <<fileVars, unitVars>>

\* The loop body of TrainPL up to the start of the threads.
TrainPLBeginPass ==
  /\ phase = "TrainPL"
  /\ train.pc = "pass"
  /\ train.pass < train.num_training_passes
  /\ StartThreads([train EXCEPT !.learning_rate = PLLearningRate(@, train.pass)])

\* The loop body of TrainSSVM up to the start of the threads.
TrainSSVMBeginPass ==
  /\ phase = "TrainSSVM"
  /\ train.pc = "pass"
  /\ train.pass < train.num_training_passes
  /\ StartThreads([train EXCEPT !.backup_inference = CopyInference(inference),
                                !.stats = PrecisionStatsNew, !.reverted = FALSE])

\* ForeachInput: the thread reads the next record, or ends at the end of the input.
\* while (!reader->ReachedEnd()): RecordedRecordReader::ReachedEnd under its mutex.
ThreadReachedEnd(t) ==
  /\ Training
  /\ threads[t].pc = "run"
  /\ threads' = [threads EXCEPT ![t].pc = IF train.reader >= Len(train.recorded_cache_)
                                           THEN "exit" ELSE "read"]
  /\ UNCHANGED <<FLAGS, input, inference, phase, count, train, log>>
  /\ UNCHANGED servingVars
  /\ UNCHANGED <<fileVars, unitVars>>

\* A Read that hands out the record at pos_ and leaves pos_ where it is.
ReadWithoutAdvance(t) ==
  /\ Training
  /\ threads[t].pc = "read"
  /\ IF train.reader >= Len(train.recorded_cache_)
     THEN threads' = [threads EXCEPT ![t].pc = "run"]
     ELSE threads' = [threads EXCEPT ![t].pc = "learn", ![t].record = train.reader + 1]
  /\ UNCHANGED <<FLAGS, input, inference, phase, count, train, log>>
  /\ UNCHANGED servingVars
  /\ UNCHANGED <<fileVars, unitVars>>

\* if (!reader->Read(&record)) continue; RecordedRecordReader::Read under its
\* mutex.
ThreadRead(t) ==
  /\ Training
  /\ threads[t].pc = "read"
  /\ IF train.reader >= Len(train.recorded_cache_)
     THEN /\ threads' = [threads EXCEPT ![t].pc = "run"]
          /\ UNCHANGED train
     ELSE /\ train' = [train EXCEPT !.reader = @ + 1]
          /\ threads' = [threads EXCEPT ![t].pc = "learn", ![t].record = train.reader + 1]
  /\ UNCHANGED <<FLAGS, input, inference, phase, count, log>>
  /\ UNCHANGED servingVars
  /\ UNCHANGED <<fileVars, unitVars>>

\* SSVMLearn or PLLearn on the record read, up to the update loops.
ThreadLearn(t) ==
  LET r == train.recorded_cache_[threads[t].record]
      Update(g, before, augmented) ==
        /\ threads' = [threads EXCEPT ![t] = NextUpdate([@ EXCEPT !.arcs = g.arcs,
                                                                  !.factors = g.factors,
                                                                  !.before = before,
                                                                  !.augmented = augmented])]
        /\ log' = [log EXCEPT !.arcs = LogUpdates(@, g.arcs, 1),
                              !.factors = LogUpdates(@, g.factors, 1),
                              !.processed[threads[t].record] = @ + 1]
      SSVMLearned(a, g) ==
        /\ train' = [train EXCEPT !.stats = UpdateStats(inference, a, g.new_assignment, @)]
        /\ inference' = [inference EXCEPT !.num_svm_training_samples_ = @ + 1]
        /\ Update(g, Weights(inference), g.new_assignment)
      PLLearned(g) ==
        /\ UNCHANGED <<train, inference>>
        /\ Update(g, <<>>, <<>>)
      Learn(q, a) ==
        IF phase = "TrainSSVM"
        THEN \E sh \in Shuffles, d \in {-1} \cup {LabelOf(a, n) : n \in DOMAIN a.assignments_} :
               SSVMLearned(a, SSVMLearnGradient(inference, q, a, train.learning_rate,
                                                [shuffles |-> sh, dangling |-> d]))
        ELSE PLLearned(PLLearnGradient(inference, q, a, train.learning_rate))
      Build(q) == Learn(QueryWithLabels(q, inference, r.node_assignments),
                        FromNodeAssignmentsProto(q, inference, r.node_assignments))
  IN /\ Training
     /\ threads[t].pc = "learn"
     /\ Build(FromFeaturesQueryProto(GraphQueryNew(inference), inference, r.features))
     /\ UNCHANGED <<FLAGS, input, phase, count>>
     /\ UNCHANGED servingVars
     /\ UNCHANGED <<fileVars, unitVars>>

\* atomicAddRegularized: double expected = value.load()
ThreadArcLoad(t) ==
  /\ Training
  /\ threads[t].pc = "arc"
  /\ threads' = [threads EXCEPT ![t].pc = "cas",
                                ![t].expected = inference.features_[Head(threads[t].arcs)[1]]]
  /\ UNCHANGED <<FLAGS, input, inference, phase, count, train, log>>
  /\ UNCHANGED servingVars
  /\ UNCHANGED <<fileVars, unitVars>>

\* A compare-and-swap that leaves expected as it is when it fails.
ArcCASKeepsExpected(t) ==
  LET feature == Head(threads[t].arcs)[1]
      value_added == Head(threads[t].arcs)[2]
  IN /\ Training
     /\ threads[t].pc = "cas"
     /\ IF inference.features_[feature] = threads[t].expected
        THEN /\ inference' = [inference EXCEPT !.features_[feature] =
                                AddRegularized(threads[t].expected, value_added, 0,
                                               inference.regularizer_)]
             /\ threads' = [threads EXCEPT ![t] = NextUpdate([@ EXCEPT !.arcs = Tail(@)])]
        ELSE UNCHANGED <<inference, threads>>
     /\ UNCHANGED <<FLAGS, input, phase, count, train, log>>
     /\ UNCHANGED servingVars
     /\ UNCHANGED <<fileVars, unitVars>>

\* A compare-and-swap that erases the feature whose weight it brings to 0.
ArcCASErasesZero(t) ==
  LET feature == Head(threads[t].arcs)[1]
      desired == AddRegularized(threads[t].expected, Head(threads[t].arcs)[2], 0,
                                inference.regularizer_)
  IN /\ Training
     /\ threads[t].pc = "cas"
     /\ IF inference.features_[feature] = threads[t].expected
        THEN /\ inference' =
                  [inference EXCEPT !.features_ =
                     IF desired = 0 THEN [f \in DOMAIN @ \ {feature} |-> @[f]]
                     ELSE [@ EXCEPT ![feature] = desired]]
             /\ threads' = [threads EXCEPT ![t] = NextUpdate([@ EXCEPT !.arcs = Tail(@)])]
        ELSE /\ threads' = [threads EXCEPT ![t].expected = inference.features_[feature]]
             /\ UNCHANGED inference
     /\ UNCHANGED <<FLAGS, input, phase, count, train, log>>
     /\ UNCHANGED servingVars
     /\ UNCHANGED <<fileVars, unitVars>>

\* atomicAddRegularized: value.compare_exchange_weak(expected, desired)
ThreadArcCAS(t) ==
  LET feature == Head(threads[t].arcs)[1]
      value_added == Head(threads[t].arcs)[2]
  IN /\ Training
     /\ threads[t].pc = "cas"
     /\ IF inference.features_[feature] = threads[t].expected
        THEN /\ inference' = [inference EXCEPT !.features_[feature] =
                                AddRegularized(threads[t].expected, value_added, 0,
                                               inference.regularizer_)]
             /\ threads' = [threads EXCEPT ![t] = NextUpdate([@ EXCEPT !.arcs = Tail(@)])]
        ELSE /\ threads' = [threads EXCEPT ![t].expected = inference.features_[feature]]
             /\ UNCHANGED inference
     /\ UNCHANGED <<FLAGS, input, phase, count, train, log>>
     /\ UNCHANGED servingVars
     /\ UNCHANGED <<fileVars, unitVars>>

\* factor_feature->second += f_feature->second: the read of the weight.
ThreadFactorLoad(t) ==
  /\ Training
  /\ threads[t].pc = "factor"
  /\ threads' = [threads EXCEPT ![t].pc = "store",
                                ![t].expected = inference.factor_features_[Head(threads[t].factors)[1]]
                                                + Head(threads[t].factors)[2]]
  /\ UNCHANGED <<FLAGS, input, inference, phase, count, train, log>>
  /\ UNCHANGED servingVars
  /\ UNCHANGED <<fileVars, unitVars>>

\* factor_feature->second += f_feature->second: the write of the sum.  The
\* weight is a plain double that other threads read and write: the build may
\* write the sum first and regularize it in memory afterwards, or regularize
\* it in a register and write once.
ThreadFactorStore(t) ==
  LET hash == Head(threads[t].factors)[1]
  IN /\ Training
     /\ threads[t].pc = "store"
     /\ \/ /\ inference' = [inference EXCEPT !.factor_features_[hash] = threads[t].expected]
           /\ threads' = [threads EXCEPT ![t].pc = "min"]
        \/ /\ inference' = [inference EXCEPT !.factor_features_[hash] =
                              AddRegularized(threads[t].expected, 0, 0, inference.regularizer_)]
           /\ threads' = [threads EXCEPT ![t] = NextUpdate([@ EXCEPT !.factors = Tail(@)])]
     /\ UNCHANGED <<FLAGS, input, phase, count, train, log>>
     /\ UNCHANGED servingVars
     /\ UNCHANGED <<fileVars, unitVars>>

\* if (factor_feature->second < 0) factor_feature->second = 0;
ThreadFactorMin(t) ==
  LET hash == Head(threads[t].factors)[1]
  IN /\ Training
     /\ threads[t].pc = "min"
     /\ inference' = [inference EXCEPT !.factor_features_[hash] = IF @ < 0 THEN 0 ELSE @]
     /\ threads' = [threads EXCEPT ![t].pc = "max"]
     /\ UNCHANGED <<FLAGS, input, phase, count, train, log>>
     /\ UNCHANGED servingVars
     /\ UNCHANGED <<fileVars, unitVars>>

\* if (factor_feature->second > regularizer_) factor_feature->second = regularizer_;
ThreadFactorMax(t) ==
  LET hash == Head(threads[t].factors)[1]
  IN /\ Training
     /\ threads[t].pc = "max"
     /\ inference' = [inference EXCEPT !.factor_features_[hash] =
                        IF @ > inference.regularizer_ THEN inference.regularizer_ ELSE @]
     /\ threads' = [threads EXCEPT ![t] = NextUpdate([@ EXCEPT !.factors = Tail(@)])]
     /\ UNCHANGED <<FLAGS, input, phase, count, train, log>>
     /\ UNCHANGED servingVars
     /\ UNCHANGED <<fileVars, unitVars>>

\* SSVMLearn returns to ForeachInput.
ThreadReturn(t) ==
  /\ Training
  /\ threads[t].pc = "ret"
  /\ threads' = [threads EXCEPT ![t].pc = "run", ![t].before = <<>>, ![t].augmented = <<>>]
  /\ UNCHANGED <<FLAGS, input, inference, phase, count, train, log>>
  /\ UNCHANGED servingVars
  /\ UNCHANGED <<fileVars, unitVars>>

AllJoined == \A t \in DOMAIN threads : threads[t].pc = "exit"

\* A TrainSSVM that keeps the weights of every pass.
RevertNoPass(error_rate, last_error_rate) == FALSE

\* if (error_rate > last_error_rate)
RevertPass(error_rate, last_error_rate) == ErrorRateGreater(error_rate, last_error_rate)

\* A revert that leaves the learning rate as it is.
KeepLearningRate(learning_rate) == learning_rate

\* learning_rate *= 0.5
HalfLearningRate(learning_rate) == learning_rate \div 2

\* The loop body of TrainSSVM after the join of the threads.
TrainSSVMEndPass ==
  LET error_rate == <<train.stats.incorrect_labels,
                      train.stats.incorrect_labels + train.stats.correct_labels>>
      Stop(learning_rate) ==
        /\ train' = [train EXCEPT !.learning_rate = learning_rate, !.reverted = TRUE,
                                  !.pc = "done"]
        /\ inference' = AssignInference(inference, train.backup_inference)
        /\ phase' = "trained"
      Revert(learning_rate) ==
        /\ train' = [train EXCEPT !.learning_rate = learning_rate, !.reverted = TRUE,
                                  !.pc = "pass", !.pass = @ + 1]
        /\ inference' = PrepareForInference(AssignInference(inference, train.backup_inference))
        /\ phase' = phase
      Halved(learning_rate) ==
        /\ IF learning_rate < FLAGS.stop_learning_rate THEN Stop(learning_rate)
           ELSE Revert(learning_rate)
        /\ log' = [log EXCEPT !.reverts = @ + 1]
      Accept ==
        /\ train' = [train EXCEPT !.last_error_rate = error_rate, !.pc = "pass", !.pass = @ + 1]
        /\ inference' = PrepareForInference(inference)
        /\ phase' = phase
        /\ log' = [log EXCEPT !.accepted = Append(@, error_rate)]
  IN /\ phase = "TrainSSVM"
     /\ train.pc = "foreach"
     /\ AllJoined
     /\ IF RevertPass(error_rate, train.last_error_rate)
        THEN Halved(HalfLearningRate(train.learning_rate))
        ELSE Accept
     /\ threads' = <<>>
     /\ UNCHANGED <<FLAGS, input, count>>
     /\ UNCHANGED servingVars
     /\ UNCHANGED <<fileVars, unitVars>>

\* TrainSSVM returns after its last pass.
TrainSSVMReturn ==
  /\ phase = "TrainSSVM"
  /\ train.pc = "pass"
  /\ train.pass >= train.num_training_passes
  /\ train' = [train EXCEPT !.pc = "done"]
  /\ phase' = "trained"
  /\ UNCHANGED <<FLAGS, input, inference, count, threads, log>>
  /\ UNCHANGED servingVars
  /\ UNCHANGED <<fileVars, unitVars>>

\* The loop body of TrainPL after the join of the threads.
TrainPLEndPass ==
  /\ phase = "TrainPL"
  /\ train.pc = "foreach"
  /\ AllJoined
  /\ IF train.learning_rate < FLAGS.stop_learning_rate
     THEN /\ train' = [train EXCEPT !.pc = "done"]
          /\ UNCHANGED inference
     ELSE /\ train' = [train EXCEPT !.pc = "pass", !.pass = @ + 1]
          /\ inference' = PrepareForInference(inference)
  /\ threads' = <<>>
  /\ UNCHANGED <<FLAGS, input, phase, count, log>>
  /\ UNCHANGED servingVars
  /\ UNCHANGED <<fileVars, unitVars>>

\* LearningMain after TrainPL when the training method is pl.
TrainPLReturn ==
  /\ TrainPLReturned
  /\ FLAGS.training_method = "pl"
  /\ phase' = "trained"
  /\ UNCHANGED <<FLAGS, input, inference, count>>
  /\ UNCHANGED servingVars
  /\ UNCHANGED <<trainingVars, fileVars, unitVars>>

(***************************************************************************)
(* Model files: GraphInference::SaveModel and LoadModel.  A file is the    *)
(* sequence of the values written to it: ints, chars and doubles.          *)
(***************************************************************************)
RECURSIVE Concat(_)
Concat(ss) == IF ss = <<>> THEN <<>> ELSE Head(ss) \o Concat(Tail(ss))

\* The file <prefix>_features of a model without factors.
SaveFeaturesWithoutFactors(eng) ==
  LET Write(fs) ==
        <<Len(fs)>> \o Concat([i \in 1..Len(fs) |-> fs[i] \o <<eng.features_[fs[i]]>>])
  IN Write(SetToSeqBy(DOMAIN eng.features_, FeatureLess))

\* The file <prefix>_features.
SaveFeatures(eng) ==
  LET Write(fs, factors) ==
        <<Len(fs)>>
        \o Concat([i \in 1..Len(fs) |-> fs[i] \o <<eng.features_[fs[i]]>>])
        \o <<Len(factors)>>
        \o Concat([i \in 1..Len(factors) |->
                     <<Len(factors[i])>> \o factors[i]
                     \o <<FactorWeight(eng, FactorHash(factors[i]))>>])
  IN Write(SetToSeqBy(DOMAIN eng.features_, FeatureLess), SetToLexSeq(eng.factors_set_))

\* The file <prefix>_lfreq.
SaveLabelFrequency(eng) ==
  LET Write(labels) ==
        <<Len(labels)>> \o Concat([i \in 1..Len(labels) |->
                                     <<labels[i], eng.label_frequency_[labels[i]]>>])
  IN Write(SetToSortedSeq(DOMAIN eng.label_frequency_))

\* The files SaveModel writes; lfreq is <<>> when no file is written.
SaveModel(eng) ==
  [features |-> SaveFeatures(eng),
   strings |-> saveToFile(eng.strings_),
   lfreq |-> IF FLAGS.unknown_label # <<>> THEN SaveLabelFrequency(eng) ELSE <<>>]

\* The loop that reads num_features features: [features_, pos], pos the
\* position of the next value of the file.
RECURSIVE LoadFeatures(_, _, _, _)
LoadFeatures(features, file, pos, n) ==
  IF n = 0 THEN [features_ |-> features, pos |-> pos]
  ELSE LoadFeatures(MapPut(features, <<file[pos], file[pos + 1], file[pos + 2]>>, file[pos + 3]),
                    file, pos + 4, n - 1)

\* The loop that reads num_factor_features factors.
RECURSIVE LoadFactorFeatures(_, _, _, _)
LoadFactorFeatures(factor_features, file, pos, n) ==
  IF n = 0 THEN factor_features
  ELSE LET Read(size_of_factor) ==
             LoadFactorFeatures(
               MapPut(factor_features,
                      FactorHash(SubSeq(file, pos + 1, pos + size_of_factor)),
                      file[pos + size_of_factor + 1]),
               file, pos + size_of_factor + 2, n - 1)
       IN Read(file[pos])

RECURSIVE LoadLabelFrequency(_, _, _, _)
LoadLabelFrequency(label_frequency, file, pos, n) ==
  IF n = 0 THEN label_frequency
  ELSE LoadLabelFrequency(MapPut(label_frequency, file[pos], file[pos + 1]), file, pos + 2, n - 1)

LoadModel(eng, model) ==
  LET Load(st) ==
        [eng EXCEPT
           !.features_ = st.features_,
           !.factor_features_ =
              IF st.pos <= Len(model.features)
              THEN LoadFactorFeatures(@, model.features, st.pos + 1, model.features[st.pos])
              ELSE @,
           !.strings_ = loadFromFile(model.strings),
           !.label_frequency_ =
              IF FLAGS.unknown_label # <<>>
              THEN LoadLabelFrequency(<<>>, model.lfreq, 2, model.lfreq[1])
              ELSE @]
  IN PrepareForInference(Load(LoadFeatures(<<>>, model.features, 2, model.features[1])))

\* LearningMain saves the trained model.
SaveModelFiles ==
  /\ phase = "trained"
  /\ files' = SaveModel(inference)
  /\ phase' = "saved"
  /\ UNCHANGED <<FLAGS, input, inference, count, loaded>>
  /\ UNCHANGED servingVars
  /\ UNCHANGED <<trainingVars, unitVars>>

\* A server or an evaluation started with the same flags loads the model.
LoadModelFiles ==
  /\ phase = "saved"
  /\ loaded' = LoadModel(GraphInferenceNew, files)
  /\ phase' = "loaded"
  /\ UNCHANGED <<FLAGS, input, inference, count, files>>
  /\ UNCHANGED servingVars
  /\ UNCHANGED <<trainingVars, unitVars>>

InitTraining ==
  /\ \E run \in TrainingRuns :
       /\ FLAGS = run[1]
       /\ input = run[2]
  /\ inference = GraphInferenceNew
  /\ phase = "InitTrain"
  /\ count = 0
  /\ request = NoRequest
  /\ query = <<>>
  /\ start = <<>>
  /\ opt = Idle
  /\ runs = <<>>
  /\ train = NoTraining
  /\ threads = <<>>
  /\ log = NoLog
  /\ files = NoFiles
  /\ loaded = GraphInferenceNew
  /\ unit = NoUnit
  /\ calls = <<>>

NextTraining ==
  \/ InitTrainAddQuery
  \/ InitTrainPrepare
  \/ TrainPLBegin
  \/ TrainPLBeginPass
  \/ TrainPLEndPass
  \/ TrainPLReturn
  \/ TrainSSVMBegin
  \/ TrainSSVMBeginPass
  \/ \E t \in DOMAIN threads : ThreadReachedEnd(t)
  \/ \E t \in DOMAIN threads : ThreadRead(t)
  \/ \E t \in DOMAIN threads : ThreadLearn(t)
  \/ \E t \in DOMAIN threads : ThreadArcLoad(t)
  \/ \E t \in DOMAIN threads : ThreadArcCAS(t)
  \/ \E t \in DOMAIN threads : ThreadFactorLoad(t)
  \/ \E t \in DOMAIN threads : ThreadFactorStore(t)
  \/ \E t \in DOMAIN threads : ThreadFactorMin(t)
  \/ \E t \in DOMAIN threads : ThreadFactorMax(t)
  \/ \E t \in DOMAIN threads : ThreadReturn(t)
  \/ TrainSSVMEndPass
  \/ TrainSSVMReturn
  \/ SaveModelFiles
  \/ LoadModelFiles

SpecTraining == InitTraining /\ [][NextTraining]_vars

(***************************************************************************)
(* C12: in pl_ssvm training the call of TrainSSVM that follows TrainPL     *)
(* leaves every arc weight and every factor weight as the last PL epoch    *)
(* left it, and InitializeFeatureWeights has run exactly once, in TrainPL. *)
(***************************************************************************)
C12_WeightsOfLastPLEpoch ==
  [][(TrainPLReturned /\ phase' = "TrainSSVM")
       => /\ Weights(inference') = Weights(inference)
          /\ log'.initialized = 1]_vars

\* The first SSVM epoch of a pl_ssvm run is about to start on weights that
\* the PL epoch moved away from their initial value.
C12_Witness ==
  /\ FLAGS.training_method = "pl_ssvm"
  /\ phase = "TrainSSVM"
  /\ train.pc = "pass"
  /\ train.pass = 0
  /\ log.initialized = 1
  /\ Weights(inference)
       # Weights(InitializeFeatureWeights(inference, FLAGS.regularization_const))

(***************************************************************************)
(* C4: once InitializeFeatureWeights has run, whenever a call of SSVMLearn *)
(* or PLLearn returns, every arc weight and every factor weight is in the  *)
(* box [0, regularizer_], regularizer_ being 1 / --regularization_const.   *)
(***************************************************************************)
InBox(w, eng) == 0 <= w /\ w <= eng.regularizer_

CallReturns == Training /\ \E t \in DOMAIN threads : threads[t].pc = "ret"

C4_WeightsInBox ==
  CallReturns
    => /\ \A f \in DOMAIN inference.features_ : InBox(inference.features_[f], inference)
       /\ \A h \in DOMAIN inference.factor_features_ :
            InBox(inference.factor_features_[h], inference)

(***************************************************************************)
(* C5: when the threads of a pass have joined, every arc weight and every  *)
(* factor weight is what the clamp-adds of the updates made to it during   *)
(* the pass give from its value at the start of the pass, applied one      *)
(* after the other in some order.                                          *)
(***************************************************************************)
RECURSIVE SequentialResults(_, _, _)
SequentialResults(w, updates, max) ==
  IF updates = <<>> THEN {w}
  ELSE UNION {SequentialResults(AddRegularized(w, updates[i], 0, max), RemoveAt(updates, i), max) :
                i \in DOMAIN updates}

PassJoined == Training /\ AllJoined

C5_NoLostUpdate ==
  PassJoined
    => /\ \A f \in DOMAIN log.arcs :
            inference.features_[f]
              \in SequentialResults(log.start.features_[f], log.arcs[f], inference.regularizer_)
       /\ \A h \in DOMAIN log.factors :
            inference.factor_features_[h]
              \in SequentialResults(log.start.factor_features_[h], log.factors[h],
                                    inference.regularizer_)

(***************************************************************************)
(* C6: the engine that LoadModel fills from the files SaveModel wrote has  *)
(* the arc features of the saving engine with their weights, its weight    *)
(* for every factor of factors_set_, its dictionary and, when              *)
(* --unknown_label is set, its label_frequency_.                           *)
(***************************************************************************)
ModelLoaded == phase = "loaded"

C6_SaveLoadRoundTrip ==
  ModelLoaded
    => /\ loaded.features_ = inference.features_
       /\ \A f \in inference.factors_set_ :
            FactorWeight(loaded, FactorHash(f)) = FactorWeight(inference, FactorHash(f))
       /\ loaded.strings_ = inference.strings_
       /\ FLAGS.unknown_label # <<>> => loaded.label_frequency_ = inference.label_frequency_

\* A model with arc features, factors and label frequencies was saved and loaded.
C6_Witness ==
  /\ ModelLoaded
  /\ FLAGS.unknown_label # <<>>
  /\ DOMAIN inference.features_ # {}
  /\ inference.factors_set_ # {}
  /\ DOMAIN inference.label_frequency_ # {}
  /\ \E f \in DOMAIN inference.features_ :
       inference.features_[f] # inference.regularizer_ \div 2

(***************************************************************************)
(* C7: after LoadModel the engine has the factors_set_ of the engine that  *)
(* saved the model and the same candidate index: best_features_for_type_,  *)
(* best_features_for_a_type_, best_features_for_b_type_ and the factor     *)
(* candidate tree of every factor size.                                    *)
(***************************************************************************)
C7_LoadedIndex ==
  ModelLoaded
    => /\ loaded.factors_set_ = inference.factors_set_
       /\ loaded.best_features_for_type_ = inference.best_features_for_type_
       /\ loaded.best_features_for_a_type_ = inference.best_features_for_a_type_
       /\ loaded.best_features_for_b_type_ = inference.best_features_for_b_type_
       /\ loaded.best_factor_features_first_level_
            = inference.best_factor_features_first_level_

(***************************************************************************)
(* C8: in TrainSSVM the error rate of every accepted pass is not higher    *)
(* than the error rate of the pass accepted before it, 1.0 for the first   *)
(* one, and a pass whose error rate is higher is reverted, not accepted.   *)
(* An error rate <<i, n>> is i / n.                                        *)
(***************************************************************************)
NotHigher(error_rate, last_error_rate) ==
  \/ error_rate[2] = 0
  \/ last_error_rate[2] = 0
  \/ error_rate[1] * last_error_rate[2] <= last_error_rate[1] * error_rate[2]

PassErrorRate ==
  <<train.stats.incorrect_labels, train.stats.incorrect_labels + train.stats.correct_labels>>

C8_AcceptedNonIncreasing ==
  /\ [](\A i \in DOMAIN log.accepted :
          NotHigher(log.accepted[i], IF i = 1 THEN ErrorRateOne ELSE log.accepted[i - 1]))
  /\ [][(phase = "TrainSSVM" /\ PassJoined /\ train'.pc # "foreach")
          => IF NotHigher(PassErrorRate, train.last_error_rate)
             THEN /\ log'.accepted = Append(log.accepted, PassErrorRate)
                  /\ log'.reverts = log.reverts
             ELSE /\ log'.accepted = log.accepted
                  /\ log'.reverts = log.reverts + 1]_vars

\* A pass was accepted and the pass after it, with a higher error rate, reverted.
C8_Witness ==
  /\ phase = "TrainSSVM"
  /\ Len(log.accepted) >= 1
  /\ log.reverts >= 1
  /\ train.reverted

(***************************************************************************)
(* C9: when TrainSSVM reverts a pass, every arc weight and every factor    *)
(* weight is again the value it had when the pass started, whatever the    *)
(* threads wrote during the pass.                                          *)
(***************************************************************************)
C9_RevertRestoresWeights ==
  [][log'.reverts = log.reverts + 1 => Weights(inference') = log.start]_vars

\* Two threads updated weights during a pass that was then reverted.
C9_Witness ==
  /\ log.reverts >= 1
  /\ train.reverted
  /\ NumThreads = MaxThreads
  /\ \E f \in DOMAIN log.arcs : log.arcs[f] # <<>>
  /\ Weights(inference) = log.start

(***************************************************************************)
(* C21: PerformAssignmentOptimization leaves its loop before the last of   *)
(* its passes only after an iteration that left the total score (arc       *)
(* weights plus factor weights minus penalties) as it was when the         *)
(* iteration started.                                                      *)
(***************************************************************************)
FullScore(a) == ArcWeights(a) + FactorWeights(a) - Penalties(a)

\* The step that leaves the loop by the break with passes to spare.
EarlyStop ==
  /\ Optimizing
  /\ opt.pc = "score"
  /\ opt'.pc = "done"
  /\ opt.pass + 1 < Passes

C21_EarlyStopOnlyUnchanged ==
  [][EarlyStop => FullScore(opt.a) = FullScore(opt.before)]_vars

(***************************************************************************)
(* C22: for all nodes n and n* and every label l*, the score of n given    *)
(* the assignment of l* to n* is the score of n on the assignment with     *)
(* the label of n* set to l*: in the arcs, in the factors and in the       *)
(* penalty.                                                                *)
(***************************************************************************)
\* The labels the nodes of a carry.
LabelsAt(a) == {LabelOf(a, n) : n \in Nodes(a)}

NodeScoreSubstitutes(a, q, eng, node, node_assigned, node_assignment) ==
  GetNodeScoreGivenAssignmentToANode(a, q, eng, node, node_assigned, node_assignment)
    = GetNodeScore(SetLabel(a, node_assigned, node_assignment), q, eng, node)

C22_NodeScoreGivenAssignment ==
  (Optimizing /\ opt.pc # "idle") =>
    \A node, node_assigned \in Nodes(opt.a) : \A node_assignment \in LabelsAt(opt.a) :
      NodeScoreSubstitutes(opt.a, query, inference, node, node_assigned, node_assignment)

\* The same for the arcs alone: on a query without factors and an assignment
\* without penalties.
C22_ArcsSubstitute ==
  (Optimizing /\ opt.pc # "idle" /\ query.factors_ = <<>> /\ Penalties(opt.a) = 0) =>
    \A node, node_assigned \in Nodes(opt.a) : \A node_assignment \in LabelsAt(opt.a) :
      NodeScoreSubstitutes(opt.a, query, inference, node, node_assigned, node_assignment)

(***************************************************************************)
(* C23: the labelling PerformAssignmentOptimization ends with scores at    *)
(* least as high as the labelling the call started with and as every       *)
(* labelling it had at the end of an earlier iteration of its loop.        *)
(***************************************************************************)
OptimizationDone == phase = "MapInference" /\ opt.pc = "done"

C23_ReturnsBestHeld ==
  OptimizationDone => \A h \in opt.held : FullScore(opt.a) >= FullScore(h)

\* The same with the score the engine computes (GetTotalScore).
C23_ReturnsBestHeldByEngineScore ==
  OptimizationDone =>
    \A h \in opt.held : GetTotalScore(opt.a, query, inference)
                           >= GetTotalScore(h, query, inference)

(***************************************************************************)
(* C24: within one pass, whatever the number of threads that draw from the *)
(* shared reader, every record the reader holds is handed to exactly one   *)
(* thread exactly once: when the threads are joined every record was       *)
(* processed once, and no record is ever processed twice.                  *)
(***************************************************************************)
Records == 1..Len(train.recorded_cache_)

C24_EachRecordOnce ==
  Training =>
    /\ DOMAIN log.processed = Records
    /\ \A pos \in Records : log.processed[pos] <= 1
    /\ \A t1, t2 \in DOMAIN threads :
         (t1 # t2 /\ threads[t1].pc \notin {"run", "read", "exit"}
                  /\ threads[t2].pc \notin {"run", "read", "exit"})
           => threads[t1].record # threads[t2].record
    /\ AllJoined => \A pos \in Records : log.processed[pos] = 1

\* Two threads were joined after a pass over three records.
C24_Witness ==
  /\ Training
  /\ AllJoined
  /\ NumThreads = MaxThreads
  /\ Len(train.recorded_cache_) = 3
  /\ \A pos \in Records : log.processed[pos] = 1

(***************************************************************************)
(* C26: while the threads of a pass run SSVMLearn or PLLearn, no step      *)
(* changes the dictionary, the label checker, the label frequencies, the   *)
(* factor set or the candidate indexes, and none adds or removes a key of  *)
(* the arc weights or of the factor weights: only weights change.          *)
(***************************************************************************)
EngineFrame(eng) ==
  <<eng.strings_, eng.label_checker_, eng.label_frequency_, eng.factors_set_,
    eng.best_features_for_type_, eng.best_features_for_a_type_, eng.best_features_for_b_type_,
    eng.best_factor_features_first_level_, DOMAIN eng.features_, DOMAIN eng.factor_features_>>

\* A step of a thread of the pass.
LearnStep == Training /\ train'.pc = "foreach" /\ threads' # threads

C26_LearnFrame ==
  [][LearnStep => EngineFrame(inference') = EngineFrame(inference)]_vars

\* The threads of a pass changed arc weights and factor weights.
C26_Witness ==
  /\ Training
  /\ AllJoined
  /\ inference.features_ # log.start.features_
  /\ inference.factor_features_ # log.start.factor_features_
  /\ DOMAIN inference.features_ = DOMAIN log.start.features_
  /\ DOMAIN inference.factor_features_ = DOMAIN log.start.factor_features_

\* The same for the steps of PerformAssignmentOptimization in MapInference
\* and in SSVMLearn.
C26_OptimizationFrame ==
  [][Optimizing => EngineFrame(inference') = EngineFrame(inference)]_vars

(***************************************************************************)
(* SSVM passes on arcs under fair scheduling: a thread that is in the loop  *)
(* of atomicAddRegularized executes its compare-and-swap in the end.       *)
(***************************************************************************)
\* Runs of SSVM training with two threads on records that share their arcs.
HogwildRuns ==
  {<<TrainFlags, <<SampleAX, SampleBX>>>>,
   <<FastTrainFlags, <<SampleAX, SampleAX, SampleBX>>>>}

InitHogwild == InitTraining /\ <<FLAGS, input>> \in HogwildRuns

CompareExchange(t) == t \in DOMAIN threads /\ ThreadArcCAS(t)

NextHogwild ==
  \/ InitTrainAddQuery
  \/ InitTrainPrepare
  \/ TrainSSVMBegin
  \/ TrainSSVMBeginPass
  \/ \E t \in DOMAIN threads : ThreadReachedEnd(t)
  \/ \E t \in DOMAIN threads : ThreadRead(t)
  \/ \E t \in DOMAIN threads : ThreadLearn(t)
  \/ \E t \in DOMAIN threads : ThreadArcLoad(t)
  \/ \E t \in DOMAIN threads : ThreadArcCAS(t)
  \/ \E t \in DOMAIN threads : ThreadReturn(t)
  \/ TrainSSVMEndPass
  \/ TrainSSVMReturn

SpecHogwildFair ==
  /\ InitHogwild
  /\ [][NextHogwild]_vars
  /\ \A t \in 1..MaxThreads : WF_vars(CompareExchange(t))

(***************************************************************************)
(* C27: every atomicAddRegularized completes.  A compare-and-swap fails    *)
(* only when the weight is no longer the value the thread loaded, that is  *)
(* when another thread wrote it, and under fair scheduling every thread    *)
(* that is in the loop leaves it.                                          *)
(***************************************************************************)
InCAS(t) == Training /\ t \in DOMAIN threads /\ threads[t].pc = "cas"

\* The compare-and-swap of t failed: t is in the loop with the same update.
CASFailed(t) == InCAS(t) /\ InCAS(t)' /\ threads'[t].arcs = threads[t].arcs /\ threads' # threads

C27_LockFree ==
  [][\A t \in 1..MaxThreads :
       (CASFailed(t) /\ threads'[t] # threads[t]) =>
         /\ inference.features_[Head(threads[t].arcs)[1]] # threads[t].expected
         /\ threads'[t].expected = inference.features_[Head(threads[t].arcs)[1]]
         /\ inference' = inference]_vars

C27_Completes == \A t \in 1..MaxThreads : InCAS(t) ~> ~InCAS(t)

C27_ClampAddCompletes == C27_LockFree /\ C27_Completes

\* Two threads are in the loop on the same weight, and one of them loaded
\* the weight before another thread wrote it.
C27_Witness ==
  \E t1, t2 \in DOMAIN threads :
    /\ t1 # t2
    /\ InCAS(t1)
    /\ InCAS(t2)
    /\ Head(threads[t1].arcs)[1] = Head(threads[t2].arcs)[1]
    /\ threads[t1].expected # inference.features_[Head(threads[t1].arcs)[1]]

(***************************************************************************)
(* C28: during and after a pass of SSVM training with any number of        *)
(* threads, no increment of the shared PrecisionStats is lost:             *)
(* correct_labels + incorrect_labels is the number of nodes to infer of    *)
(* the records processed, and the other counters stay within it.           *)
(***************************************************************************)
\* The nodes to infer of a record.
InferNodes(r) ==
  LET a == FromNodeAssignmentsProto(
             FromFeaturesQueryProto(GraphQueryNew(inference), inference, r.features),
             inference, r.node_assignments)
  IN Cardinality({n \in DOMAIN a.assignments_ : a.assignments_[n].must_infer})

\* The nodes to infer of the records the threads processed in this pass.
InferNodesProcessed ==
  SumSeq([pos \in 1..Len(train.recorded_cache_) |->
            log.processed[pos] * InferNodes(train.recorded_cache_[pos])])

InTrainSSVM == phase = "TrainSSVM" /\ train.pc # "none"

\* The start_learning_rate TrainSSVM is called with.
InitialRateSSVM ==
  IF FLAGS.training_method = "ssvm" THEN FLAGS.start_learning_rate
  ELSE FLAGS.initial_learning_rate_ssvm

\* The step that reverts a pass.
Reverting == InTrainSSVM /\ log'.reverts = log.reverts + 1

C29_RateOfPasses ==
  [](InTrainSSVM =>
       /\ Len(log.accepted) + log.reverts <= train.num_training_passes
       /\ Training =>
            /\ train.pass < train.num_training_passes
            /\ InitialRateSSVM >= FLAGS.stop_learning_rate
                 => train.learning_rate >= FLAGS.stop_learning_rate)

C29_RateOnlyHalved ==
  [][/\ (InTrainSSVM /\ train'.learning_rate # train.learning_rate) => Reverting
     /\ Reverting =>
          /\ train'.learning_rate = train.learning_rate \div 2
          /\ train'.learning_rate < FLAGS.stop_learning_rate => phase' = "trained"]_vars

C29_LearningRateSSVM == C29_RateOfPasses /\ C29_RateOnlyHalved

\* A pass runs with the halved rate after a reverted pass.
C29_Witness ==
  /\ InTrainSSVM
  /\ Training
  /\ log.reverts = 1
  /\ train.learning_rate = InitialRateSSVM \div 2
  /\ \E t \in DOMAIN threads : threads[t].pc = "learn"

(***************************************************************************)
(* C30: in TrainPL no pass is executed with a learning rate below          *)
(* stop_learning_rate.                                                     *)
(***************************************************************************)
\* A thread of a pass of TrainPL has a record to learn from.
PLLearning ==
  /\ phase = "TrainPL"
  /\ Training
  /\ \E t \in DOMAIN threads : threads[t].pc = "learn"

C30_NoPassBelowStop ==
  PLLearning => train.learning_rate >= FLAGS.stop_learning_rate

\* The passes of TrainPL whose rate is below stop_learning_rate are the last
\* ones: TrainPL leaves its loop after such a pass.
C30_StopsAfterPassBelowStop ==
  [][(phase = "TrainPL" /\ Training /\ train.learning_rate < FLAGS.stop_learning_rate
      /\ train'.pc # "foreach") => train'.pc = "done"]_vars

(***************************************************************************)
(* C31: with --training_method=pl_ssvm TrainPL runs at most                *)
(* num_pass_change_training passes and TrainSSVM only the remaining ones:  *)
(* the passes of both together never exceed num_training_passes.           *)
(***************************************************************************)
Combined == FLAGS.training_method = "pl_ssvm" /\ phase \in {"TrainPL", "TrainSSVM", "trained"}

\* The passes of TrainPL are at most num_pass_change_training.
C31_PassesOfTrainPL ==
  (Combined /\ phase = "TrainPL") => log.passes <= FLAGS.num_pass_change_training

C31_PassesOfCombined ==
  /\ C31_PassesOfTrainPL
  /\ Combined => log.passes <= FLAGS.num_training_passes

\* What TrainSSVM is bounded by: num_training_passes passes of its own.
C31_PassesOfTrainSSVM ==
  (Combined /\ phase # "TrainPL") =>
     log.passes <= FLAGS.num_pass_change_training + FLAGS.num_training_passes

(***************************************************************************)
(* C32: one SSVMLearn call with learning rate eta clamp-adds to each       *)
(* existing arc or factor weight eta times (the occurrences of the feature *)
(* under the given labelling minus its occurrences under the labelling the *)
(* optimization returned); it creates no key, and when the two labellings  *)
(* are equal no weight changes.                                            *)
(***************************************************************************)
\* The query and the given assignment of the call thread t is in.
CallQuery(t) ==
  LET r == train.recorded_cache_[threads[t].record]
  IN QueryWithLabels(FromFeaturesQueryProto(GraphQueryNew(inference), inference, r.features),
                     inference, r.node_assignments)

CallAssignment(t) ==
  LET r == train.recorded_cache_[threads[t].record]
  IN FromNodeAssignmentsProto(
       FromFeaturesQueryProto(GraphQueryNew(inference), inference, r.features),
       inference, r.node_assignments)

ArcOccurrences(a, q, feature) ==
  Cardinality({i \in 1..Len(q.arcs_) :
                 <<LabelOf(a, q.arcs_[i][1]), LabelOf(a, q.arcs_[i][2]), q.arcs_[i][3]>> = feature})

FactorOccurrences(a, q, hash) ==
  Cardinality({i \in 1..Len(q.factors_) : FactorLabelsHash(a, q.factors_[i]) = hash})

\* eta * (occurrences under the given labelling - occurrences under the other)
ArcAmount(t, feature) ==
  train.learning_rate * (ArcOccurrences(CallAssignment(t), CallQuery(t), feature)
                         - ArcOccurrences(threads[t].augmented, CallQuery(t), feature))

FactorAmount(t, hash) ==
  train.learning_rate * (FactorOccurrences(CallAssignment(t), CallQuery(t), hash)
                         - FactorOccurrences(threads[t].augmented, CallQuery(t), hash))

ClampAdd(w, amount, hi) ==
  IF w + amount < 0 THEN 0 ELSE IF w + amount > hi THEN hi ELSE w + amount

\* SSVMLearn of thread t has made its updates and is about to return.
SSVMLearnDone(t) ==
  /\ phase = "TrainSSVM"
  /\ Training
  /\ t \in DOMAIN threads
  /\ threads[t].pc = "ret"

SameLabelling(t) ==
  \A n \in DOMAIN threads[t].augmented.assignments_ :
     LabelOf(threads[t].augmented, n) = LabelOf(CallAssignment(t), n)

\* A call that no other call runs beside: the weights it leaves.
C32_WeightsOfCall ==
  (DOMAIN threads = {1} /\ SSVMLearnDone(1)) =>
     LET before == threads[1].before
     IN /\ DOMAIN inference.features_ = DOMAIN before.features_
        /\ DOMAIN inference.factor_features_ = DOMAIN before.factor_features_
        /\ \A k \in DOMAIN before.features_ :
              inference.features_[k] =
                ClampAdd(before.features_[k], ArcAmount(1, k), inference.regularizer_)
        /\ \A h \in DOMAIN before.factor_features_ :
              inference.factor_features_[h] =
                ClampAdd(before.factor_features_[h], FactorAmount(1, h), inference.regularizer_)
        /\ SameLabelling(1) => Weights(inference) = before

\* Calls that run beside each other: every change of an arc weight is the
\* clamp-add of the amount of the call that makes it.
C32_ArcWeightSteps ==
  [][(phase = "TrainSSVM" /\ Training /\ phase' = phase /\ train'.pc = "foreach") =>
       \A k \in DOMAIN inference.features_ :
          inference'.features_[k] # inference.features_[k] =>
            \E t \in DOMAIN threads :
               /\ threads[t].pc = "cas"
               /\ Len(threads'[t].arcs) = Len(threads[t].arcs) - 1
               /\ ArcAmount(t, k) # 0
               /\ inference'.features_[k] =
                    ClampAdd(inference.features_[k], ArcAmount(t, k), inference.regularizer_)]_vars

C32_SSVMLearnUpdate == []C32_WeightsOfCall /\ C32_ArcWeightSteps

\* A call that changed an arc weight and a factor weight has made its updates.
C32_Witness ==
  /\ DOMAIN threads = {1}
  /\ SSVMLearnDone(1)
  /\ \E k \in DOMAIN inference.features_ : inference.features_[k] # threads[1].before.features_[k]
  /\ \E h \in DOMAIN inference.factor_features_ :
        inference.factor_features_[h] # threads[1].before.factor_features_[h]

\* A call whose optimization returned the given labelling has returned.
C32_SameLabellingCall == ~(DOMAIN threads = {1} /\ SSVMLearnDone(1) /\ SameLabelling(1))

(***************************************************************************)
(* InitialGreedyAssignmentPass on its own, one round of its while loop per *)
(* step, on the queries over a few nodes: cycles, self-loops, arcs in both *)
(* directions.  calls is the sequence of the nodes taken from the queue.   *)
(***************************************************************************)
\* The nodes of a query are 0..MaxGreedyNode.
MaxGreedyNode == 2

\* The arcs of a query.
MaxGreedyArcs == 3

\* The rounds of the while loop a run is followed for.
MaxExtractions == 8

GreedyNodes == 0..MaxGreedyNode

GreedyLabels == <<StrA, StrX, StrB, StrX, StrA, StrX>>

\* The model the queries are answered with.
GreedyEngine ==
  PrepareForInference(
    AddQueryToModel(
      AddQueryToModel(GraphInferenceNew,
                      Query(<<BinaryRelation(0, 1, StrR)>>,
                            <<NodeAssignment(0, StrA, FALSE), NodeAssignment(1, StrX, TRUE)>>)),
      Query(<<BinaryRelation(0, 1, StrR)>>,
            <<NodeAssignment(0, StrB, FALSE), NodeAssignment(1, StrX, FALSE)>>)))

\* The arcs of the queries: up to MaxGreedyArcs different arcs, or one arc
\* twice.
GreedyArcs ==
  {SetToLexSeq(x) : x \in {x \in SUBSET (GreedyNodes \X GreedyNodes) :
                             x # {} /\ Cardinality(x) <= MaxGreedyArcs}}
    \cup {<<x, x>> : x \in GreedyNodes \X GreedyNodes}

\* The queries: arcs of one type, every node given or not.
GreedyRequests ==
  {Query([i \in 1..Len(arcs) |-> BinaryRelation(arcs[i][1], arcs[i][2], StrR)],
         [n \in 1..(MaxGreedyNode + 1) |->
            NodeAssignment(n - 1, GreedyLabels[n], (n - 1) \in given)]) :
     arcs \in GreedyArcs, given \in SUBSET GreedyNodes}

\* A query with one node more: node 0 with an arc to and an arc from one
\* given node, node 1 with an arc to each of two given nodes.
GreedyWideRequest ==
  Query([i \in 1..4 |->
           BinaryRelation(<<0, MaxGreedyNode, 1, 1>>[i],
                          <<MaxGreedyNode, 0, MaxGreedyNode, MaxGreedyNode + 1>>[i], StrR)],
        [n \in 1..(MaxGreedyNode + 2) |->
           NodeAssignment(n - 1, GreedyLabels[n], n - 1 >= MaxGreedyNode)])

InitGreedy ==
  /\ FLAGS = DefaultFlags
  /\ input = <<>>
  /\ inference = GreedyEngine
  /\ phase = "Greedy"
  /\ count = 0
  /\ request \in GreedyRequests \cup {GreedyWideRequest}
  /\ query = QueryWithLabels(
               FromFeaturesQueryProto(GraphQueryNew(inference), inference, request.features),
               inference, request.node_assignments)
  /\ start = FromNodeAssignmentsProto(
               FromFeaturesQueryProto(GraphQueryNew(inference), inference, request.features),
               inference, request.node_assignments)
  /\ opt = Idle
  /\ runs = <<>>
  /\ train = NoTraining
  /\ threads = <<>>
  /\ log = NoLog
  /\ files = NoFiles
  /\ loaded = GraphInferenceNew
  /\ unit = [kind |-> "greedy", pc |-> "begin"]
  /\ calls = <<>>

greedyVars ==
  <<FLAGS, input, inference, phase, count, request, query, start, opt, runs, trainingVars,
    fileVars>>

\* InitialGreedyAssignmentPass up to its while loop: assigned and p_queue.
GreedyBegin ==
  /\ phase = "Greedy"
  /\ unit.pc = "begin"
  /\ unit' = [kind |-> "greedy", pc |-> "loop",
              st |-> [a |-> start,
                      assigned |-> [n \in Nodes(start) |-> ~start.assignments_[n].must_infer],
                      p_queue |-> GreedyQueue(UpdatablePriorityQueueNew, start, query,
                                              [n \in Nodes(start) |->
                                                 ~start.assignments_[n].must_infer], 0)]]
  /\ UNCHANGED <<calls, greedyVars>>

\* One round of the while loop.
GreedyExtract ==
  /\ phase = "Greedy"
  /\ unit.pc = "loop"
  /\ ~IsEmpty(unit.st.p_queue)
  /\ Len(calls) < MaxExtractions
  /\ calls' = Append(calls, GetKeyWithMinValue(unit.st.p_queue))
  /\ unit' = [unit EXCEPT !.st = GreedyStep(@, query, inference)]
  /\ UNCHANGED greedyVars

\* The queue is empty: the pass returns.
GreedyReturn ==
  /\ phase = "Greedy"
  /\ unit.pc = "loop"
  /\ IsEmpty(unit.st.p_queue)
  /\ unit' = [unit EXCEPT !.pc = "done"]
  /\ UNCHANGED <<calls, greedyVars>>

NextGreedy == GreedyBegin \/ GreedyExtract \/ GreedyReturn

\* A round of the while loop, by the key it takes from the queue.
GreedyRound ==
  /\ phase = "Greedy"
  /\ unit.pc = "loop"
  /\ ~IsEmpty(unit.st.p_queue)
  /\ Len(calls) < MaxExtractions
  /\ calls' = Append(calls, GetKeyWithMinValue(unit.st.p_queue))

\* The thread that runs the pass is scheduled: it enters the loop, makes the
\* next round, returns.
SpecGreedy ==
  /\ InitGreedy
  /\ [][NextGreedy]_vars
  /\ WF_vars(GreedyBegin)
  /\ WF_calls(GreedyRound)
  /\ WF_vars(GreedyReturn)

GreedyDone == phase = "Greedy" /\ unit.pc = "done"

\* The steps are those of the pass as a whole.
GreedyStepsArePass ==
  GreedyDone => unit.st.a = InitialGreedyAssignmentPass(start, query, inference)

MustInfer == {n \in Nodes(start) : start.assignments_[n].must_infer}

\* The nodes taken from the queue before the i-th.
ExtractedBefore(i) == {calls[j] : j \in 1..(i - 1)}

\* The neighbours of n that are given or were taken from the queue earlier.
AssignedNeighbours(n, done) ==
  {m \in Nodes(start) \ {n} :
     /\ \E arc \in Range(query.arcs_) : {arc[1], arc[2]} = {n, m}
     /\ m \notin MustInfer \/ m \in done}

(***************************************************************************)
(* C33: each node the greedy pass takes from the queue is an infer node    *)
(* that has, among the infer nodes not yet taken, the largest number of    *)
(* neighbours that are already assigned (given, or taken earlier).         *)
(***************************************************************************)
MostAssignedNeighbours(i) ==
  \A m \in MustInfer \ ExtractedBefore(i) :
     Cardinality(AssignedNeighbours(m, ExtractedBefore(i)))
       <= Cardinality(AssignedNeighbours(calls[i], ExtractedBefore(i)))

C33_ExtractsMostAssigned ==
  phase = "Greedy" =>
    \A i \in 1..Len(calls) : calls[i] \in MustInfer /\ MostAssignedNeighbours(i)

\* Only infer nodes are taken from the queue.
C33_ExtractsInferNodes ==
  phase = "Greedy" => \A i \in 1..Len(calls) : calls[i] \in MustInfer

\* The infer nodes are taken from the queue in the order of the claim.
C33_InferNodesInOrder ==
  phase = "Greedy" =>
    \A i \in 1..Len(calls) : calls[i] \in MustInfer => MostAssignedNeighbours(i)

(***************************************************************************)
(* C34: the greedy pass terminates on every query, with cycles, self-loops *)
(* and parallel arcs, and chooses a label for every infer node exactly     *)
(* once.                                                                   *)
(***************************************************************************)
C34_EachInferNodeOnce ==
  /\ phase = "Greedy" =>
       \A n \in Nodes(start) : Cardinality({i \in 1..Len(calls) : calls[i] = n}) <= 1
  /\ GreedyDone =>
       \A n \in MustInfer : Cardinality({i \in 1..Len(calls) : calls[i] = n}) = 1

\* A label is chosen for every infer node: when the pass has returned every
\* infer node went through the choice among its candidates.
C34_EveryInferNodeAssigned ==
  GreedyDone => \A n \in MustInfer : unit.st.assigned[n]

C34_LabelForEveryInferNode ==
  <>GreedyDone /\ [](C34_EachInferNodeOnce /\ C34_EveryInferNodeAssigned)

\* An infer node that did not go through the choice, having no candidate
\* when it was taken from the queue, has the label it had before the pass.
C34_UnassignedKeepLabel ==
  GreedyDone =>
     \A n \in MustInfer : ~unit.st.assigned[n] => LabelOf(unit.st.a, n) = LabelOf(start, n)

\* The pass terminates, takes every infer node from the queue exactly once,
\* and leaves the label of those without a candidate.
C34_GreedyTerminates == <>GreedyDone /\ [](C34_EachInferNodeOnce /\ C34_UnassignedKeepLabel)

\* The pass has returned on a query with a self-loop, arcs in both
\* directions between two nodes, an infer node that got a label and one that
\* had no candidate.
C34_Witness ==
  /\ GreedyDone
  /\ Cardinality(MustInfer) >= 2
  /\ \E n, m \in MustInfer : unit.st.assigned[n] /\ ~unit.st.assigned[m]
  /\ \E arc \in Range(query.arcs_) : arc[1] = arc[2]
  /\ \E x, y \in Range(query.arcs_) : x[1] = y[2] /\ x[2] = y[1] /\ x[1] # x[2]

(***************************************************************************)
(* The permutations of LocalPerFactorOptimizationPass on their own: the    *)
(* orders tried for the free labels of one candidate factor, and the       *)
(* choice between the two branches for factors TLC cannot enumerate.       *)
(***************************************************************************)
\* The free labels of the candidate factors whose orders are enumerated.
MaxFreeLabels == 3

\* The largest number of free labels whose branch is computed.
MaxFactorLabels == 22

\* 20!, the largest factorial below 2^64: 0x21C3677C82B40000.
Factorial20 == <<0, 0, 180, 130, 124, 103, 195, 33>>

\* Values of --permutations_beam_size whose orders are enumerated.
SmallBeams == {0, 1, 2, 3, 5, 6, 7}

\* Values of --permutations_beam_size, up to the largest uint64.
Beams64 ==
  {U64FromNat(b) : b \in SmallBeams \cup {23, 24, 64}}
    \cup {Factorial20, U64Add(Factorial20, UINT64_MAX), U64Add(UINT64_MAX, UINT64_MAX),
          UINT64_MAX}

InitPermutations ==
  /\ FLAGS \in {[DefaultFlags EXCEPT !.permutations_beam_size = b] : b \in SmallBeams}
  /\ input = <<>>
  /\ inference = GraphInferenceNew
  /\ phase = "Permutations"
  /\ count = 0
  /\ request = NoRequest
  /\ query = <<>>
  /\ start = <<>>
  /\ opt = Idle
  /\ runs = <<>>
  /\ train = NoTraining
  /\ threads = <<>>
  /\ log = NoLog
  /\ files = NoFiles
  /\ loaded = GraphInferenceNew
  /\ \/ unit \in [kind : {"orders"},
                   labels : UNION {[1..n -> 0..2] : n \in 0..MaxFreeLabels}]
     \/ /\ FLAGS = [DefaultFlags EXCEPT !.permutations_beam_size = 0]
        /\ unit \in [kind : {"branch"}, size : 0..MaxFactorLabels, beam : Beams64]
  /\ calls = <<>>

\* The orders tried for the free labels of one candidate factor.
TryPermutations ==
  /\ phase = "Permutations"
  /\ unit.kind = "orders"
  /\ calls = <<>>
  /\ \E sh \in Shuffles :
       calls' = <<[sampling |-> TooManyPermutations(CalculateFactorial(Len(unit.labels)),
                                                    U64FromNat(FLAGS.permutations_beam_size)),
                   tried |-> PermutationsTried(unit.labels, sh, 1)]>>
  /\ UNCHANGED <<unit, standaloneVars>>

\* The branch taken for a candidate factor with unit.size free labels.
ChooseBranch ==
  /\ phase = "Permutations"
  /\ unit.kind = "branch"
  /\ calls = <<>>
  /\ calls' = <<[num_permutations |-> CalculateFactorial(unit.size),
                 sampling |-> TooManyPermutations(CalculateFactorial(unit.size), unit.beam)]>>
  /\ UNCHANGED <<unit, standaloneVars>>

NextPermutations == TryPermutations \/ ChooseBranch

SpecPermutations == InitPermutations /\ [][NextPermutations]_vars

\* n! for the n whose factorial TLC can hold.
RECURSIVE Factorial(_)
Factorial(n) == IF n <= 0 THEN 1 ELSE n * Factorial(n - 1)

\* The distinct orders of the labels.
DistinctOrders(labels) ==
  {[i \in 1..Len(labels) |-> labels[p[i]]] : p \in Permutations(1..Len(labels))}

\* |free labels|! is larger than the beam: with the factorial itself up to 12
\* labels, by 20! < 2^64 < 21! above.
FactorialExceeds(n, beam) ==
  IF n <= 12 THEN U64Greater(U64FromNat(Factorial(n)), beam)
  ELSE IF n = 20 THEN U64Greater(Factorial20, beam)
  ELSE n > 20

OrdersTried == phase = "Permutations" /\ unit.kind = "orders" /\ calls # <<>>

BranchChosen ==
  /\ phase = "Permutations"
  /\ unit.kind = "branch"
  /\ calls # <<>>
  /\ unit.size <= 12 \/ unit.size >= 20

\* The factorial is exact up to 20! and the largest uint64 above.
FactorialExact ==
  (phase = "Permutations" /\ unit.kind = "branch" /\ calls # <<>>) =>
     /\ unit.size <= 12 => calls[1].num_permutations = U64FromNat(Factorial(unit.size))
     /\ unit.size = 20 => calls[1].num_permutations = Factorial20
     /\ unit.size > 20 => calls[1].num_permutations = UINT64_MAX

(***************************************************************************)
(* C35: for each candidate factor at most permutations_beam_size orders of *)
(* the free labels are evaluated; all distinct orders are evaluated when   *)
(* |free labels|! <= permutations_beam_size, and random sampling is used   *)
(* when |free labels|! is larger, also when it overflows 64 bits.          *)
(***************************************************************************)
\* The orders evaluated, for the factors whose orders are enumerated.
C35_OrdersWithinBeam ==
  OrdersTried =>
     /\ Len(calls[1].tried) <= FLAGS.permutations_beam_size
     /\ Factorial(Len(unit.labels)) <= FLAGS.permutations_beam_size =>
          /\ ~calls[1].sampling
          /\ Range(calls[1].tried) = DistinctOrders(unit.labels)
          /\ Len(calls[1].tried) = Cardinality(DistinctOrders(unit.labels))
     /\ Factorial(Len(unit.labels)) > FLAGS.permutations_beam_size => calls[1].sampling

\* The branch taken, for every size of factor and every beam.
C35_SamplingWhenLarger ==
  BranchChosen => (calls[1].sampling <=> FactorialExceeds(unit.size, unit.beam))

C35_PermutationsBeam == C35_OrdersWithinBeam /\ C35_SamplingWhenLarger

\* The same with the largest value of the flag left out.
C35_SamplingBelowLargestBeam ==
  (BranchChosen /\ unit.beam # UINT64_MAX) =>
     (calls[1].sampling <=> FactorialExceeds(unit.size, unit.beam))

(***************************************************************************)
(* The factor candidate tree on its own: the factors of one size are       *)
(* inserted one after another, in the order of factors_set_, as in the     *)
(* loop of PrepareForInference.                                            *)
(***************************************************************************)
\* The label ids of the factors of a model are 0..MaxTreeLabel.
MaxTreeLabel == 7

\* The label ids of the factors inserted with the limit of the unit tests.
MaxSmallTreeLabel == 2

\* mockFactorsLimit of the unit tests.
mockFactorsLimit == 0

\* The sorted sequences of n labels out of 0..hi.
Multisets(n, hi) == {f \in [1..n -> 0..hi] : \A i \in 1..(n - 1) : f[i] <= f[i + 1]}

\* The factors of the set S in the order of std::set<Factor>.
FactorsInOrder(S) ==
  [i \in 1..Cardinality(S) |->
     CHOOSE f \in S : Cardinality({g \in S : LexLess(g, f)}) = i - 1]

\* The runs: the limit and the factors.
TreeRuns ==
  {[limit |-> kFactorsLimitBeforeGoingDepperMultiLevelMap,
    factors |-> FactorsInOrder(Multisets(MaxFactorSize, MaxTreeLabel))],
   [limit |-> kFactorsLimitBeforeGoingDepperMultiLevelMap,
    factors |-> FactorsInOrder({f \in Multisets(MaxFactorSize, MaxTreeLabel) : f[1] # 0})]}
  \cup {[limit |-> mockFactorsLimit, factors |-> FactorsInOrder(fs)] :
          fs \in {x \in SUBSET (Multisets(MaxFactorSize, MaxSmallTreeLabel)) :
                    Cardinality(x) \in 1..2}}

InitFactorTree ==
  /\ FLAGS \in {DefaultFlags, [DefaultFlags EXCEPT !.maximum_depth = 3]}
  /\ input = <<>>
  /\ inference = GraphInferenceNew
  /\ phase = "FactorTree"
  /\ count = 0
  /\ request = NoRequest
  /\ query = <<>>
  /\ start = <<>>
  /\ opt = Idle
  /\ runs = <<>>
  /\ train = NoTraining
  /\ threads = <<>>
  /\ log = NoLog
  /\ files = NoFiles
  /\ loaded = GraphInferenceNew
  /\ \E run \in TreeRuns :
       unit = [kind |-> "tree", limit |-> run.limit, factors |-> run.factors,
               level |-> FactorFeaturesLevelNew]
  /\ calls = <<>>

\* One round of the loop over factors_set_: calls holds the factors inserted.
InsertFactor ==
  /\ phase = "FactorTree"
  /\ Len(calls) < Len(unit.factors)
  /\ unit' = [unit EXCEPT !.level =
                InsertFactorFeature(@, <<0, unit.factors[Len(calls) + 1]>>,
                                    unit.factors[Len(calls) + 1], 0, FLAGS.maximum_depth,
                                    -1, <<>>, unit.limit)]
  /\ calls' = Append(calls, unit.factors[Len(calls) + 1])
  /\ UNCHANGED standaloneVars

NextFactorTree == InsertFactor

SpecFactorTree == InitFactorTree /\ [][NextFactorTree]_vars

\* Every factor stored at or below the level reached by path holds each of
\* the labels in labels as often as the path does.
RECURSIVE PathWithinFactors(_, _, _)
PathWithinFactors(level, path, labels) ==
  /\ \A k \in 1..Len(level.factor_features) :
        \A l \in labels : Count(path, l) <= Count(level.factor_features[k][2], l)
  /\ \A l \in DOMAIN level.next_level :
        PathWithinFactors(level.next_level[l], Append(path, l), labels)

\* The level has a level below it that is reached by two edges of label l.
TwiceBelow(level, l) ==
  /\ l \in DOMAIN level.next_level
  /\ l \in DOMAIN level.next_level[l].next_level

(***************************************************************************)
(* C36: in the factor candidate tree every factor stored at a node holds   *)
(* the labels on the path from the root to the node at least as often as   *)
(* the path does, for every label id, id 0 included.                       *)
(***************************************************************************)
C36_PathWithinFactor ==
  phase = "FactorTree" => PathWithinFactors(unit.level, <<>>, 0..MaxTreeLabel)

\* The same for the label ids above 0.
C36_PathWithinFactorAboveZero ==
  phase = "FactorTree" => PathWithinFactors(unit.level, <<>>, 1..MaxTreeLabel)

\* A tree with a path of two edges of the same label above 0.
C36_TwiceBelowReached ==
  ~(phase = "FactorTree" /\ \E l \in 1..MaxTreeLabel : TwiceBelow(unit.level, l))

(***************************************************************************)
(* The first pass over the input (InitTrain): the threads of               *)
(* ParallelForeachInput run ForeachInput on one reader, which is a         *)
(* CachingInputRecordReader on a FileInputRecordReader<std::string>, with  *)
(* a CrossValidationReader in between when cross validation is on, and    *)
(* the pass after it, on the RecordedRecordReader that ShuffledCacheInput  *)
(* creates next.  unit is [kind, file, reader, recording, workers, joined, *)
(* pass, recorded, replayed]; calls lists the records the first pass hands *)
(* to proc, unit.replayed those of the second pass.                        *)
(***************************************************************************)
\* The longest input file, in lines.
MaxLines == 3

\* The folds of the cross validation.
NumFolds == 2

\* An input file: its lines (TRUE a record, FALSE an empty line), whether the
\* last line ends with a newline, and whether the file can be opened for
\* reading (access(F_OK) succeeds in both cases).
InputFiles ==
  {f \in [lines : UNION {[1..n -> BOOLEAN] : n \in 0..MaxLines},
          terminated : BOOLEAN, readable : BOOLEAN] :
     /\ ~f.terminated => (Len(f.lines) >= 1 /\ f.lines[Len(f.lines)])
     /\ ~f.readable => (f.lines = <<>> /\ f.terminated)}

\* std::ifstream file(filename): failbit is set when the open fails.
IfstreamOpen(f) == [pos |-> 0, eofbit |-> FALSE, failbit |-> ~f.readable]

\* std::getline(file, *s) on a good stream: the line read is its number, 0
\* for an empty line and when nothing is left to extract.
getline(stream, f) ==
  IF stream.pos >= Len(f.lines)
  THEN [stream |-> [stream EXCEPT !.eofbit = TRUE, !.failbit = TRUE], s |-> 0]
  ELSE [stream |-> [stream EXCEPT !.pos = @ + 1,
                                  !.eofbit = (stream.pos + 1 = Len(f.lines) /\ ~f.terminated)],
        s |-> IF f.lines[stream.pos + 1] THEN stream.pos + 1 ELSE 0]

FileInputRecordReaderNew(f, max_records) ==
  [file |-> IfstreamOpen(f), max_records_ |-> max_records]

\* FileInputRecordReader<std::string>::Read: [reader, ok, s].
RECURSIVE FileRead(_, _)
FileRead(r, f) ==
  IF r.file.eofbit \/ r.file.failbit THEN [reader |-> r, ok |-> FALSE, s |-> 0]
  ELSE LET line == getline(r.file, f)
           read == [r EXCEPT !.file = line.stream]
       IN IF line.s = 0 THEN FileRead(read, f)
          ELSE IF r.max_records_ # 0
               THEN [reader |-> [read EXCEPT !.max_records_ = @ - 1], ok |-> TRUE, s |-> line.s]
               ELSE [reader |-> read, ok |-> FALSE, s |-> line.s]

FileReachedEnd(r) == r.file.eofbit \/ r.max_records_ = 0

\* A reader that leaves the rows of the other side in the file.
CrossValidationReadKeepsRow(r, f) ==
  LET row_id == (r.row_id_ + 1) % r.num_folds_
      under == FileRead(r.underlying_reader_, f)
  IN IF \/ r.training_ /\ row_id # r.fold_id_
        \/ ~r.training_ /\ row_id = r.fold_id_
     THEN [reader |-> [r EXCEPT !.row_id_ = row_id, !.underlying_reader_ = under.reader],
           ok |-> under.ok, s |-> under.s]
     ELSE [reader |-> [r EXCEPT !.row_id_ = row_id], ok |-> FALSE, s |-> 0]

\* CrossValidationReader::Read; row_id_ is kept modulo num_folds_.
CrossValidationRead(r, f) ==
  LET row_id == (r.row_id_ + 1) % r.num_folds_
      under == FileRead(r.underlying_reader_, f)
      reader == [r EXCEPT !.row_id_ = row_id, !.underlying_reader_ = under.reader]
  IN IF \/ r.training_ /\ row_id # r.fold_id_
        \/ ~r.training_ /\ row_id = r.fold_id_
     THEN [reader |-> reader, ok |-> under.ok, s |-> under.s]
     ELSE [reader |-> reader, ok |-> FALSE, s |-> 0]

\* The readers CreateReader builds on the file f.
Readers(f) ==
  {[kind |-> "file", underlying_reader_ |-> FileInputRecordReaderNew(f, -1)]}
    \cup {[kind |-> "fold", underlying_reader_ |-> FileInputRecordReaderNew(f, -1),
           fold_id_ |-> fold_id, num_folds_ |-> NumFolds, training_ |-> training, row_id_ |-> 0] :
            fold_id \in 0..(NumFolds - 1), training \in BOOLEAN}

ReaderRead(r, f) ==
  IF r.kind = "fold" THEN CrossValidationRead(r, f)
  ELSE LET under == FileRead(r.underlying_reader_, f)
       IN [reader |-> [r EXCEPT !.underlying_reader_ = under.reader], ok |-> under.ok,
           s |-> under.s]

RecordedRecordReaderNew(recording) == [recording_ |-> recording, pos_ |-> 0]

\* RecordedRecordReader::Read: [reader, ok, s].
RecordedRead(r) ==
  IF r.pos_ >= Len(r.recording_) THEN [reader |-> r, ok |-> FALSE, s |-> 0]
  ELSE [reader |-> [r EXCEPT !.pos_ = @ + 1], ok |-> TRUE, s |-> r.recording_[r.pos_ + 1]]

RecordedReachedEnd(r) == r.pos_ >= Len(r.recording_)

InitReader ==
  /\ Standalone
  /\ phase = "Reader"
  /\ \E f \in InputFiles, n \in 1..MaxThreads :
       \E r \in Readers(f) :
         unit = [kind |-> "Reader", file |-> f, reader |-> r, recording |-> <<>>,
                 workers |-> [t \in 1..n |-> [pc |-> "run", record |-> 0]], joined |-> FALSE,
                 pass |-> 1, recorded |-> RecordedRecordReaderNew(<<>>), replayed |-> <<>>]
  /\ calls = <<>>

Reading(t) == phase = "Reader" /\ t \in DOMAIN unit.workers

\* while (!reader->ReachedEnd())
ForeachReachedEnd(t) ==
  /\ Reading(t)
  /\ unit.workers[t].pc = "run"
  /\ unit' = [unit EXCEPT !.workers[t].pc =
                IF (IF unit.pass = 1 THEN FileReachedEnd(unit.reader.underlying_reader_)
                    ELSE RecordedReachedEnd(unit.recorded))
                THEN "exit" ELSE "read"]
  /\ UNCHANGED <<calls, standaloneVars>>

\* if (!reader->Read(&record)) continue; in the first pass up to the return
\* of the underlying reader's Read in CachingInputRecordReader::Read.
ForeachRead(t) ==
  /\ Reading(t)
  /\ unit.workers[t].pc = "read"
  /\ IF unit.pass = 1
     THEN LET read == ReaderRead(unit.reader, unit.file)
          IN unit' = [unit EXCEPT !.reader = read.reader,
                                  !.workers[t] = IF read.ok
                                                 THEN [pc |-> "push", record |-> read.s]
                                                 ELSE [pc |-> "run", record |-> 0]]
     ELSE LET read == RecordedRead(unit.recorded)
          IN unit' = [unit EXCEPT !.recorded = read.reader,
                                  !.workers[t] = IF read.ok
                                                 THEN [pc |-> "proc", record |-> read.s]
                                                 ELSE [pc |-> "run", record |-> 0]]
  /\ UNCHANGED <<calls, standaloneVars>>

\* A push_back that leaves only the record pushed last in the recording.
CachingPushForgets(t) ==
  /\ Reading(t)
  /\ unit.workers[t].pc = "push"
  /\ unit' = [unit EXCEPT !.recording = <<unit.workers[t].record>>,
                          !.workers[t].pc = "proc"]
  /\ UNCHANGED <<calls, standaloneVars>>

\* CachingInputRecordReader::Read: recording_->push_back(*s) under its mutex.
CachingPush(t) ==
  /\ Reading(t)
  /\ unit.workers[t].pc = "push"
  /\ unit' = [unit EXCEPT !.recording = Append(@, unit.workers[t].record),
                          !.workers[t].pc = "proc"]
  /\ UNCHANGED <<calls, standaloneVars>>

\* proc(adapter(record)): InitTrain's lambda under its mutex.
ForeachProc(t) ==
  /\ Reading(t)
  /\ unit.workers[t].pc = "proc"
  /\ IF unit.pass = 1
     THEN /\ calls' = Append(calls, unit.workers[t].record)
          /\ unit' = [unit EXCEPT !.workers[t] = [pc |-> "run", record |-> 0]]
     ELSE /\ UNCHANGED calls
          /\ unit' = [unit EXCEPT !.workers[t] = [pc |-> "run", record |-> 0],
                                  !.replayed = Append(@, unit.workers[t].record)]
  /\ UNCHANGED standaloneVars

\* for (auto& thread : threads) thread.join();
ParallelJoin ==
  /\ phase = "Reader"
  /\ ~unit.joined
  /\ \A t \in DOMAIN unit.workers : unit.workers[t].pc = "exit"
  /\ unit' = [unit EXCEPT !.joined = TRUE]
  /\ UNCHANGED <<calls, standaloneVars>>

\* The next ParallelForeachInput on the input: ShuffledCacheInput shuffles its
\* cache and creates a RecordedRecordReader, the threads start.
CreateRecordedReader ==
  /\ phase = "Reader"
  /\ unit.joined
  /\ unit.pass = 1
  /\ \E cache \in Shuffled(unit.recording) :
       unit' = [unit EXCEPT !.pass = 2, !.joined = FALSE,
                            !.recorded = RecordedRecordReaderNew(cache),
                            !.workers = [t \in DOMAIN unit.workers |->
                                           [pc |-> "run", record |-> 0]]]
  /\ UNCHANGED <<calls, standaloneVars>>

WorkerStep(t) == ForeachReachedEnd(t) \/ ForeachRead(t) \/ CachingPush(t) \/ ForeachProc(t)

NextReader ==
  \/ \E t \in 1..MaxThreads : ForeachReachedEnd(t)
  \/ \E t \in 1..MaxThreads : ForeachRead(t)
  \/ \E t \in 1..MaxThreads : CachingPush(t)
  \/ \E t \in 1..MaxThreads : ForeachProc(t)
  \/ ParallelJoin
  \/ CreateRecordedReader

\* Every thread that can take a step is scheduled in the end, and so is the
\* thread that waits in join.
SpecReaderFair ==
  /\ InitReader
  /\ [][NextReader]_vars
  /\ \A t \in 1..MaxThreads : WF_vars(WorkerStep(t))
  /\ WF_vars(ParallelJoin)
  /\ WF_vars(CreateRecordedReader)

(***************************************************************************)
(* C25: every pass over the input terminates: every thread leaves the loop *)
(* of ForeachInput and the join returns; no thread is left in the loop by  *)
(* a Read that returns false.                                              *)
(***************************************************************************)
C25_EpochTerminates == <>(phase = "Reader" /\ unit.joined /\ unit.pass = 2)

\* The same for the files that can be read.
C25_ReadableFileTerminates ==
  <>(phase = "Reader" /\ ((unit.joined /\ unit.pass = 2) \/ ~unit.file.readable))

(***************************************************************************)
(* C37: after the first reader of a shuffled cached input has been read to *)
(* the end, every later reader delivers each record the first reader       *)
(* delivered exactly once, however many threads read from the first one.   *)
(***************************************************************************)
\* The pass on the later reader is over.
Replayed == phase = "Reader" /\ unit.pass = 2 /\ unit.joined

C37_ReplaysEachRecordOnce ==
  /\ (phase = "Reader" /\ unit.pass = 2) =>
       \A s \in 1..MaxLines : Count(unit.replayed, s) <= Count(calls, s)
  /\ Replayed => \A s \in 1..MaxLines : Count(unit.replayed, s) = Count(calls, s)

\* Two threads read three records from the first reader and a later reader
\* delivered them in another order.
C37_Witness ==
  /\ Replayed
  /\ Len(unit.workers) = MaxThreads
  /\ Len(calls) = MaxLines
  /\ unit.replayed # calls
  /\ unit.recording # calls

(***************************************************************************)
(* C38: in k-fold cross validation the training reader and the validation  *)
(* reader of a fold deliver disjoint sets of records whose union is the    *)
(* whole input, and every record is delivered by the validation reader of  *)
(* exactly one fold.                                                       *)
(***************************************************************************)
\* The records of the file: the numbers of its lines that are not empty.
FileRecords(f) == {i \in 1..Len(f.lines) : f.lines[i]}

\* The row of a record: its place among the records of the file, from 1.
RowOf(f, s) == Cardinality({i \in FileRecords(f) : i <= s})

\* The records a reader of the fold delivers when it takes its rows by
\* row % num_folds.
FoldRecords(f, fold_id, training) ==
  {s \in FileRecords(f) : (RowOf(f, s) % NumFolds = fold_id) = ~training}

\* The first pass on a reader of a fold is over.
FoldRead == phase = "Reader" /\ unit.reader.kind = "fold" /\ (unit.joined \/ unit.pass = 2)

C38_FoldsPartitionInput ==
  FoldRead =>
     /\ Range(calls) = FoldRecords(unit.file, unit.reader.fold_id_, unit.reader.training_)
     /\ \A s \in Range(calls) : Count(calls, s) = 1
     /\ \A fold \in 0..(NumFolds - 1) :
          /\ FoldRecords(unit.file, fold, TRUE) \cap FoldRecords(unit.file, fold, FALSE) = {}
          /\ FoldRecords(unit.file, fold, TRUE) \cup FoldRecords(unit.file, fold, FALSE)
               = FileRecords(unit.file)
     /\ \A s \in FileRecords(unit.file) :
          Cardinality({fold \in 0..(NumFolds - 1) :
                         s \in FoldRecords(unit.file, fold, FALSE)}) = 1

\* The training reader of a fold delivered two records of a file of three
\* lines and left one to the validation reader.
C38_Witness ==
  /\ FoldRead
  /\ unit.reader.training_
  /\ Len(calls) = 2
  /\ Cardinality(FileRecords(unit.file)) = MaxLines

====
